---- MODULE Spec2Model ----
(***************************************************************************)
(* Model of argus-sensor's Shadow IT pipeline:                             *)
(*   scripts/build_l2_features.py  windowed feature aggregation + novelty  *)
(*   scripts/score_shadowit.py     weighted risk scoring + reason codes    *)
(*                                                                         *)
(* Floats are modelled as exact rationals [n |-> numerator, d |-> denom.]  *)
(* with d > 0; NaN and infinities appear only as results of float() on a   *)
(* field of ra's output (float_of), where the code meets them.             *)
(*                                                                         *)
(* Spec       two runs of build_feature_rows over the same records         *)
(* SpecRows   one feature run over raw rows of ra, up to the writes        *)
(* SpecScore  one scoring run, from load_model to the publish              *)
(* SpecState  runs of either program over its processed-files state        *)
(* SpecPipes  stream_ra_rows and the ra process on the two pipes           *)
(***************************************************************************)
EXTENDS Integers, Sequences, FiniteSets, Bags, TLC

(***************************************************************************)
(* Rational arithmetic (the model's floats)                                *)
(***************************************************************************)
Abs(x) == IF x < 0 THEN -x ELSE x

RECURSIVE Gcd(_, _)
Gcd(a, b) == IF b = 0 THEN a ELSE Gcd(b, a % b)

\* canonical form: lowest terms, positive denominator
RNorm(n, d) ==
    LET s == IF d < 0 THEN -1 ELSE 1
        g == Gcd(Abs(n), Abs(d))
    IN  [n |-> (s * n) \div g, d |-> (s * d) \div g]

R(n) == [n |-> n, d |-> 1]
RAdd(a, b) == RNorm(a.n * b.d + b.n * a.d, a.d * b.d)
RMul(a, b) == RNorm(a.n * b.n, a.d * b.d)
\* a / b, b # 0
RDiv(a, b) == RNorm(a.n * b.d, a.d * b.n)
RLe(a, b) == a.n * b.d <= b.n * a.d
RLt(a, b) == a.n * b.d < b.n * a.d
RGe(a, b) == RLe(b, a)

\* Python's max(a, b) / min(a, b) on two floats: the first argument wins ties
PyMax(a, b) == IF RLt(a, b) THEN b ELSE a
PyMin(a, b) == IF RLt(b, a) THEN b ELSE a

\* Python's int(x) on a float: truncation towards zero
PyInt(x) == IF x.n >= 0 THEN x.n \div x.d ELSE -((-x.n) \div x.d)

\* Python's a // b on integers, b > 0: floor division
PyFloorDiv(a, b) == a \div b

(***************************************************************************)
(* Bounds of the feature run                                               *)
(***************************************************************************)
MaxRecs == 2
MaxFiles == 2
Runs == {1, 2}

\* record timestamps: -0.5, 1.5 and 1000 seconds
STimes == {[n |-> -1, d |-> 2], [n |-> 3, d |-> 2], [n |-> 1000, d |-> 1]}
WindowChoices == {1, 300}
Saddrs == {"h1", "h2"}
\* the remaining fields of a canonical record, as stream_ra_rows yields them
Flows ==
    { [daddr |-> "d1", proto |-> "tcp", dport |-> "443", das |-> "15169",
       sbytes |-> 5, dbytes |-> 7],
      [daddr |-> "d2", proto |-> "udp", dport |-> "443", das |-> "64500",
       sbytes |-> 0, dbytes |-> 3],
      [daddr |-> "d1", proto |-> "udp", dport |-> "53", das |-> "",
       sbytes |-> 2, dbytes |-> 0] }
\* das = "" stands for None (normalize_asn's absent value)
Records ==
    { [stime |-> t, saddr |-> s, daddr |-> f.daddr, proto |-> f.proto,
       dport |-> f.dport, das |-> f.das, sbytes |-> f.sbytes, dbytes |-> f.dbytes]
      : t \in STimes, s \in Saddrs, f \in Flows }
\* --cloud-asns of the run
cloud_asn_set == {"15169"}

VARIABLES
    window_seconds,   \* parse_window_to_seconds(args.window)
    input,            \* bag of the canonical records the archive files hold
    todo,             \* run -> bag of records the run has not yet read
    processed,        \* run -> len(processed_rel_paths)
    aggregates,       \* run -> (key -> WindowAggregate)
    order,            \* run -> insertion order of the keys of aggregates
    rows,             \* run -> final_rows
    pc,               \* run -> "idle" | "ingest" | "done"
    model,            \* the dict load_model returned
    in_row,           \* the feature row being scored (a dict)
    contributions,    \* build_score_row's contributions dict
    top3,             \* the features build_reasons reports, in rank order
    reason_list,      \* what build_reasons returned
    score_row,        \* the score fields of the row build_score_row returned
    spc,              \* scoring run: "start" | "loaded" | "scored" | "built" |
                      \* "written" | "publishing" | "done" | "failed"
    config,           \* the document of the model configuration file
    failed_in,        \* the function whose exception ended the run, or ""
    raw_row,          \* the row csv.reader gave last: the texts of its fields
    outcome,          \* what became of it: "" | "drop" | "yield" | "raise"
    record,           \* the record stream_ra_rows yielded last
    rows_read,        \* number of rows read from ra in this run
    failure,          \* the function whose exception ended the feature run
    parquet,          \* the rows written to the feature Parquet dataset
    state_count,      \* number of files of this run in the state file
    default_model,    \* the module's DEFAULT_MODEL object, as it is now
    sinks,            \* what the scoring run has written and published
    archive,          \* program -> the input files under its input root
    state_file,       \* program -> processed files its state file records
    args,             \* the command line of the run in progress
    processed_state,  \* main()'s processed_state
    files,            \* main()'s list of selected files
    processed_files,  \* the files the run has completed, in order
    rpc,              \* "idle" | "files": where the run in progress is
    runs,             \* number of runs started so far
    recorded,         \* history: program -> files a run has written to
                      \* its state file so far
    child,            \* the ra process: what it has left to write, its
                      \* exit code, whether it runs, whether stdout is open
    stdout_pipe,      \* units of data in the pipe of ra's stdout
    stderr_pipe,      \* units of data in the pipe of ra's stderr
    ppc,              \* stream_ra_rows: "start" | "read_stdout" |
                      \* "read_stderr" | "wait" | "returned" | "raised"
    stderr_text       \* units of stderr the parent has read

featVars == <<window_seconds, input, todo, processed, aggregates, order, rows,
              pc>>

rowVars == <<raw_row, outcome, record, rows_read, failure, parquet, state_count>>

scoreVars == <<model, in_row, contributions, top3, reason_list, score_row, spc,
               config, failed_in, default_model, sinks>>

stateVars == <<archive, state_file, args, processed_state, files,
               processed_files, rpc, runs, recorded>>

pipeVars == <<child, stdout_pipe, stderr_pipe, ppc, stderr_text>>

(***************************************************************************)
(* build_l2_features.py                                                    *)
(***************************************************************************)
\* str.lower() on the protocol names of the model
Lower(s) == IF s = "UDP" THEN "udp" ELSE IF s = "TCP" THEN "tcp" ELSE s

is_https_flow(dport) == dport = "443"

\* a plausible slip: every UDP flow is taken for QUIC
is_quic_flow_any_port(proto, dport) == Lower(proto) = "udp"

is_quic_flow(proto, dport) == Lower(proto) = "udp" /\ dport = "443"

WindowAggregate ==
    [flow_count |-> 0, bytes_out |-> 0, bytes_in |-> 0, unique_daddr |-> {},
     unique_asn |-> {}, cloud_asn_unique |-> {}, https_flows |-> 0,
     quic_flows |-> 0, dport_counter |-> << >>]

\* Counter[key] += 1
CounterInc(counter, k) ==
    IF k \in DOMAIN counter
    THEN [counter EXCEPT ![k] = @ + 1]
    ELSE [x \in DOMAIN counter \cup {k} |-> IF x = k THEN 1 ELSE counter[x]]

\* (int(record["stime"]) // window_seconds) * window_seconds
WindowStartEpoch(stime, ws) == PyFloorDiv(PyInt(stime), ws) * ws

RecordKey(rec, ws) == <<WindowStartEpoch(rec.stime, ws), rec.saddr>>

\* a plausible slip: `=` for `+=` on the byte counter
AccumulateOverwrite(agg, rec) ==
    [flow_count |-> agg.flow_count + 1,
     bytes_out |-> rec.sbytes,
     bytes_in |-> agg.bytes_in + rec.dbytes,
     unique_daddr |-> agg.unique_daddr \cup {rec.daddr},
     unique_asn |-> IF rec.das # "" THEN agg.unique_asn \cup {rec.das}
                    ELSE agg.unique_asn,
     cloud_asn_unique |-> IF rec.das # "" /\ rec.das \in cloud_asn_set
                          THEN agg.cloud_asn_unique \cup {rec.das}
                          ELSE agg.cloud_asn_unique,
     https_flows |-> IF is_https_flow(rec.dport) THEN agg.https_flows + 1
                     ELSE agg.https_flows,
     quic_flows |-> IF is_quic_flow(rec.proto, rec.dport) THEN agg.quic_flows + 1
                    ELSE agg.quic_flows,
     dport_counter |-> CounterInc(agg.dport_counter, rec.dport)]

\* the loop body of build_feature_rows on one aggregate
Accumulate(agg, rec) ==
    [flow_count |-> agg.flow_count + 1,
     bytes_out |-> agg.bytes_out + rec.sbytes,
     bytes_in |-> agg.bytes_in + rec.dbytes,
     unique_daddr |-> agg.unique_daddr \cup {rec.daddr},
     unique_asn |-> IF rec.das # "" THEN agg.unique_asn \cup {rec.das}
                    ELSE agg.unique_asn,
     cloud_asn_unique |-> IF rec.das # "" /\ rec.das \in cloud_asn_set
                          THEN agg.cloud_asn_unique \cup {rec.das}
                          ELSE agg.cloud_asn_unique,
     https_flows |-> IF is_https_flow(rec.dport) THEN agg.https_flows + 1
                     ELSE agg.https_flows,
     quic_flows |-> IF is_quic_flow(rec.proto, rec.dport) THEN agg.quic_flows + 1
                    ELSE agg.quic_flows,
     dport_counter |-> CounterInc(agg.dport_counter, rec.dport)]

\* aggregates[key] on the defaultdict, then the loop body
IngestInto(aggs, rec, ws) ==
    LET key == RecordKey(rec, ws)
        agg == IF key \in DOMAIN aggs THEN aggs[key] ELSE WindowAggregate
    IN  [k \in DOMAIN aggs \cup {key} |->
            IF k = key THEN Accumulate(agg, rec) ELSE aggs[k]]

\* str < str on the identities of the model (lexicographic order)
StrRank(s) == IF s = "h1" THEN 1 ELSE 2

\* one element of staged_rows (site, feature_version, run_id, source_file_count
\* and port_entropy are carried through unchanged and left out)
StagedRow(key, agg) ==
    LET flow_count == IF agg.flow_count > 1 THEN agg.flow_count ELSE 1
    IN  [window_start_epoch |-> key[1],
         identity |-> key[2],
         flow_count |-> agg.flow_count,
         bytes_out |-> agg.bytes_out,
         bytes_in |-> agg.bytes_in,
         bytes_total |-> agg.bytes_out + agg.bytes_in,
         unique_daddr |-> Cardinality(agg.unique_daddr),
         unique_asn |-> Cardinality(agg.unique_asn),
         cloud_asn_unique |-> Cardinality(agg.cloud_asn_unique),
         https_ratio |-> RDiv(R(agg.https_flows), R(flow_count)),
         quic_ratio |-> RDiv(R(agg.quic_flows), R(flow_count)),
         asn_set |-> agg.unique_asn]

\* for ... in aggregates.items(): dict iteration is insertion order
StagedRows(aggs, ord) == [i \in 1..Len(ord) |-> StagedRow(ord[i], aggs[ord[i]])]

\* the sort key (str(row["identity"]), int(row["window_start_epoch"]))
SortKeyLe(a, b) ==
    \/ StrRank(a.identity) < StrRank(b.identity)
    \/ /\ a.identity = b.identity
       /\ a.window_start_epoch <= b.window_start_epoch

\* insert row after every element that is <= it (keeps the sort stable)
RECURSIVE InsertSorted(_, _)
InsertSorted(sorted, row) ==
    IF sorted = << >> THEN <<row>>
    ELSE IF SortKeyLe(Head(sorted), row)
         THEN <<Head(sorted)>> \o InsertSorted(Tail(sorted), row)
         ELSE <<row>> \o sorted

RECURSIVE SortFrom(_, _)
SortFrom(sorted, rest) ==
    IF rest = << >> THEN sorted
    ELSE SortFrom(InsertSorted(sorted, Head(rest)), Tail(rest))

\* a plausible slip: the novelty pass runs over the rows in dict order
SortRowsUnsorted(staged) == staged

\* staged_rows.sort(key=...)
SortRows(staged) == SortFrom(<< >>, staged)

\* one iteration of the novelty loop: the output row
FinalRow(row, seen, ws) ==
    LET asn_set == row.asn_set
        new_asn == asn_set \ seen
    IN  [window_start_epoch |-> row.window_start_epoch,
         window_start |-> row.window_start_epoch,
         window_end |-> row.window_start_epoch + ws,
         identity |-> row.identity,
         flow_count |-> row.flow_count,
         bytes_out |-> row.bytes_out,
         bytes_in |-> row.bytes_in,
         bytes_total |-> row.bytes_total,
         unique_daddr |-> row.unique_daddr,
         unique_asn |-> row.unique_asn,
         cloud_asn_unique |-> row.cloud_asn_unique,
         https_ratio |-> row.https_ratio,
         quic_ratio |-> row.quic_ratio,
         new_asn_ratio |-> IF asn_set # {}
                           THEN RDiv(R(Cardinality(new_asn)), R(Cardinality(asn_set)))
                           ELSE R(0)]

\* the novelty loop; seen_by_identity is the defaultdict(set)
RECURSIVE NoveltyPass(_, _, _)
NoveltyPass(staged, seen_by_identity, ws) ==
    IF staged = << >> THEN << >>
    ELSE LET row == Head(staged)
             seen == seen_by_identity[row.identity]
         IN  <<FinalRow(row, seen, ws)>> \o
             NoveltyPass(Tail(staged),
                         [seen_by_identity EXCEPT ![row.identity] = seen \cup row.asn_set],
                         ws)

\* the part of build_feature_rows after the ingestion loops
FinalRows(aggs, ord, ws) ==
    NoveltyPass(SortRows(StagedRows(aggs, ord)), [s \in Saddrs |-> {}], ws)

(***************************************************************************)
(* build_l2_features.py: the text of a field of ra's CSV output            *)
(*                                                                         *)
(* A text is the sequence of its characters, so that strip(), upper(),     *)
(* lower(), replace(), int() and float() are computed on it.  The texts of *)
(* the model use ASCII letters, digits, space, sign, point and dash; they  *)
(* hold no exponent, underscore or non-ASCII digit.                        *)
(***************************************************************************)
LowerLetters ==
    <<"a", "b", "c", "d", "e", "f", "g", "h", "i", "j", "k", "l", "m", "n", "o",
      "p", "q", "r", "s", "t", "u", "v", "w", "x", "y", "z">>
UpperLetters ==
    <<"A", "B", "C", "D", "E", "F", "G", "H", "I", "J", "K", "L", "M", "N", "O",
      "P", "Q", "R", "S", "T", "U", "V", "W", "X", "Y", "Z">>
Digits == <<"0", "1", "2", "3", "4", "5", "6", "7", "8", "9">>
Whitespace == {" "}

\* the Python str of a text
RECURSIVE Text(_)
Text(cs) == IF cs = << >> THEN "" ELSE Head(cs) \o Text(Tail(cs))

UpperChar(c) ==
    IF \E i \in 1..Len(LowerLetters) : LowerLetters[i] = c
    THEN UpperLetters[CHOOSE i \in 1..Len(LowerLetters) : LowerLetters[i] = c]
    ELSE c

LowerChar(c) ==
    IF \E i \in 1..Len(UpperLetters) : UpperLetters[i] = c
    THEN LowerLetters[CHOOSE i \in 1..Len(UpperLetters) : UpperLetters[i] = c]
    ELSE c

\* str.upper(), str.lower()
UpperText(cs) == [i \in 1..Len(cs) |-> UpperChar(cs[i])]
LowerText(cs) == [i \in 1..Len(cs) |-> LowerChar(cs[i])]

RECURSIVE LStrip(_)
LStrip(cs) ==
    IF cs # << >> /\ Head(cs) \in Whitespace THEN LStrip(Tail(cs)) ELSE cs

RECURSIVE RStrip(_)
RStrip(cs) ==
    IF cs # << >> /\ cs[Len(cs)] \in Whitespace
    THEN RStrip(SubSeq(cs, 1, Len(cs) - 1))
    ELSE cs

\* str.strip()
Strip(cs) == RStrip(LStrip(cs))

\* str.replace("AS", ""): every non-overlapping occurrence, left to right
RECURSIVE ReplaceAS(_)
ReplaceAS(cs) ==
    IF Len(cs) < 2 THEN cs
    ELSE IF cs[1] = "A" /\ cs[2] = "S" THEN ReplaceAS(SubSeq(cs, 3, Len(cs)))
    ELSE <<cs[1]>> \o ReplaceAS(Tail(cs))

INVALID_VALUES ==
    { << >>, <<"-">>, <<"-", "-">>, <<"0">>,
      <<"u", "n", "k", "n", "o", "w", "n">>,
      <<"U", "N", "K", "N", "O", "W", "N">> }

\* None: normalize_asn never returns the empty string, which is free to stand
\* for it
None == << >>

normalize_asn(raw) ==
    LET value == Strip(raw)
        replaced == ReplaceAS(UpperText(value))
    IN  IF value = << >> \/ value \in INVALID_VALUES THEN None
        ELSE IF replaced = << >> THEN None
        ELSE replaced

normalize_dport(raw) ==
    LET value == LowerText(Strip(raw))
    IN  IF value = << >> \/ value \in INVALID_VALUES THEN <<"0">>
        ELSE IF value = <<"h", "t", "t", "p", "s">> THEN <<"4", "4", "3">>
        ELSE value

IsDigit(c) == \E i \in 1..Len(Digits) : Digits[i] = c
DigitValue(c) == (CHOOSE i \in 1..Len(Digits) : Digits[i] = c) - 1
AllDigits(cs) == \A i \in 1..Len(cs) : IsDigit(cs[i])

\* the number a string of digits spells, after acc
RECURSIVE DigitsValue(_, _)
DigitsValue(acc, cs) ==
    IF cs = << >> THEN acc
    ELSE DigitsValue(acc * 10 + DigitValue(Head(cs)), Tail(cs))

RECURSIVE Pow10(_)
Pow10(k) == IF k = 0 THEN 1 ELSE 10 * Pow10(k - 1)

HasSign(cs) == cs # << >> /\ Head(cs) \in {"+", "-"}
Unsigned(cs) == IF HasSign(cs) THEN Tail(cs) ELSE cs
SignOf(cs) == IF cs # << >> /\ Head(cs) = "-" THEN -1 ELSE 1

\* int(text): [sign] digits, surrounding whitespace ignored; else ValueError
int_raises(text) ==
    LET body == Unsigned(Strip(text)) IN body = << >> \/ ~AllDigits(body)

int_of(text) ==
    LET value == Strip(text) IN SignOf(value) * DigitsValue(0, Unsigned(value))

\* float(text): kind "num" with its value, "inf" or "nan" for the words
\* inf / infinity / nan in any case, "error" for ValueError
float_of(text) ==
    LET value == Strip(text)
        body == Unsigned(value)
        word == Text(LowerText(body))
        points == {i \in 1..Len(body) : body[i] = "."}
        point == IF points = {} THEN Len(body) + 1
                 ELSE CHOOSE i \in points : \A j \in points : i <= j
        whole == SubSeq(body, 1, point - 1)
        frac == SubSeq(body, point + 1, Len(body))
    IN  IF word \in {"inf", "infinity"}
        THEN [kind |-> "inf", value |-> R(SignOf(value))]
        ELSE IF word = "nan" THEN [kind |-> "nan", value |-> R(0)]
        ELSE IF /\ AllDigits(whole) /\ AllDigits(frac)
                /\ Len(whole) + Len(frac) > 0
             THEN [kind |-> "num",
                   value |-> RNorm(SignOf(value)
                                      * (DigitsValue(0, whole) * Pow10(Len(frac))
                                         + DigitsValue(0, frac)),
                                   Pow10(Len(frac)))]
             ELSE [kind |-> "error", value |-> R(0)]

\* parse_int_like: int(value), else int(float(value)), else 0; int(nan) is a
\* ValueError and is caught, int(inf) is an OverflowError and is not
parse_int_like(raw) ==
    LET value == Strip(raw)
        f == float_of(value)
    IN  IF value = << >> \/ value \in INVALID_VALUES
        THEN [raises |-> "", value |-> 0]
        ELSE IF ~int_raises(value) THEN [raises |-> "", value |-> int_of(value)]
        ELSE IF f.kind = "num" THEN [raises |-> "", value |-> PyInt(f.value)]
        ELSE IF f.kind = "inf" THEN [raises |-> "OverflowError", value |-> 0]
        ELSE [raises |-> "", value |-> 0]

\* one iteration of the loop of stream_ra_rows, and int(record["stime"]) of
\* the consumer: the row is dropped, a record is yielded, or an exception
\* leaves the generator ("raise") or build_feature_rows ("raise_consumer")
parse_row(row) ==
    IF Len(row) < 9 THEN [outcome |-> "drop", record |-> << >>]
    ELSE LET stime == float_of(row[1])
             saddr == Strip(row[3])
             sbytes == parse_int_like(row[8])
             dbytes == parse_int_like(row[9])
         IN  IF stime.kind = "error" THEN [outcome |-> "drop", record |-> << >>]
             ELSE IF sbytes.raises # "" \/ dbytes.raises # ""
             THEN [outcome |-> "raise", record |-> << >>]
             ELSE IF saddr = << >> THEN [outcome |-> "drop", record |-> << >>]
             ELSE IF stime.kind # "num"
             THEN [outcome |-> "raise_consumer", record |-> << >>]
             ELSE [outcome |-> "yield",
                   record |-> [stime |-> stime.value,
                               saddr |-> Text(saddr),
                               daddr |-> Text(Strip(row[4])),
                               proto |-> Text(LowerText(Strip(row[5]))),
                               dport |-> Text(normalize_dport(row[6])),
                               das |-> Text(normalize_asn(row[7])),
                               sbytes |-> sbytes.value,
                               dbytes |-> dbytes.value]]

(***************************************************************************)
(* score_shadowit.py: values and dicts                                     *)
(*                                                                         *)
(* A JSON / Parquet value is a record tagged with its type; a dict is the  *)
(* sequence of its <<key, value>> items in insertion order.                *)
(***************************************************************************)
JNum(n, d) == [t |-> "num", n |-> n, d |-> d, s |-> "", items |-> << >>]
JStr(str) == [t |-> "str", n |-> 0, d |-> 1, s |-> str, items |-> << >>]
JDict(its) == [t |-> "dict", n |-> 0, d |-> 1, s |-> "", items |-> its]
JNull == [t |-> "null", n |-> 0, d |-> 1, s |-> "", items |-> << >>]
\* a reference to the dict object at address id of a heap
JRef(id) == [t |-> "ref", n |-> id, d |-> 1, s |-> "", items |-> << >>]

\* a JSON array, and a file that is not JSON at all
JList == [t |-> "list", n |-> 0, d |-> 1, s |-> "", items |-> << >>]
Unparsable == [t |-> "unparsable", n |-> 0, d |-> 1, s |-> "", items |-> << >>]

\* the strings of the model float() parses, and what it makes of them
NumericStrings == {"12"}
ParseFloat(str) == IF str = "12" THEN R(12) ELSE R(0)

\* float(v) raises: ValueError on other strings, TypeError on None, dicts and
\* lists
float_raises(v) == ~(v.t = "num" \/ (v.t = "str" /\ v.s \in NumericStrings))

\* float(v) where it does not raise
Float(v) == IF v.t = "str" THEN ParseFloat(v.s) ELSE [n |-> v.n, d |-> v.d]

HasKey(items, k) == \E i \in 1..Len(items) : items[i][1] = k

\* dict.get(k, default)
DictGet(items, k, default) ==
    IF HasKey(items, k)
    THEN items[CHOOSE i \in 1..Len(items) : items[i][1] = k][2]
    ELSE default

\* dict[k] = v: an existing key keeps its place, a new one goes last
DictSet(items, k, v) ==
    IF HasKey(items, k)
    THEN [i \in 1..Len(items) |-> IF items[i][1] = k THEN <<k, v>> ELSE items[i]]
    ELSE Append(items, <<k, v>>)

\* dict.update(other)
RECURSIVE DictUpdate(_, _)
DictUpdate(items, other) ==
    IF other = << >> THEN items
    ELSE DictUpdate(DictSet(items, Head(other)[1], Head(other)[2]), Tail(other))

DictKeys(items) == [i \in 1..Len(items) |-> items[i][1]]

KeySet(items) == {items[i][1] : i \in 1..Len(items)}

DEFAULT_MODEL ==
    << <<"model_version", JStr("shadowit-v1")>>,
       <<"anomaly_threshold", JNum(70, 1)>>,
       <<"severity_thresholds",
         JDict(<< <<"medium", JNum(40, 1)>>, <<"high", JNum(70, 1)>> >>)>>,
       <<"weights",
         JDict(<< <<"unique_daddr", JNum(18, 1)>>,
                  <<"unique_asn", JNum(16, 1)>>,
                  <<"cloud_asn_unique", JNum(16, 1)>>,
                  <<"bytes_out", JNum(14, 1)>>,
                  <<"https_ratio", JNum(12, 1)>>,
                  <<"quic_ratio", JNum(8, 1)>>,
                  <<"port_entropy", JNum(8, 1)>>,
                  <<"new_asn_ratio", JNum(8, 1)>> >>)>>,
       <<"scales",
         JDict(<< <<"unique_daddr", JNum(50, 1)>>,
                  <<"unique_asn", JNum(20, 1)>>,
                  <<"cloud_asn_unique", JNum(8, 1)>>,
                  <<"bytes_out", JNum(100000000, 1)>>,
                  <<"https_ratio", JNum(1, 1)>>,
                  <<"quic_ratio", JNum(3, 5)>>,
                  <<"port_entropy", JNum(4, 1)>>,
                  <<"new_asn_ratio", JNum(1, 1)>> >>)>>,
       <<"reason_codes",
         JDict(<< <<"unique_daddr", JStr("MANY_DESTINATIONS")>>,
                  <<"unique_asn", JStr("MANY_ASNS")>>,
                  <<"cloud_asn_unique", JStr("MANY_CLOUD_ASNS")>>,
                  <<"bytes_out", JStr("HIGH_EGRESS")>>,
                  <<"https_ratio", JStr("HIGH_HTTPS_RATIO")>>,
                  <<"quic_ratio", JStr("HIGH_QUIC_RATIO")>>,
                  <<"port_entropy", JStr("HIGH_PORT_ENTROPY")>>,
                  <<"new_asn_ratio", JStr("HIGH_NEW_ASN_RATIO")>> >>)>> >>

\* to_float on the values a Parquet feature column holds: None or a number
to_float(value) == IF value.t = "null" THEN R(0) ELSE Float(value)

(***************************************************************************)
(* Python dict objects: a heap is the sequence of the items of the dict    *)
(* objects allocated so far, an object's address its index; a dict held as *)
(* a value of another dict is a JRef to it.                                *)
(***************************************************************************)
\* json.load / the module's literal: every inner object of a document becomes
\* a dict object of its own
RECURSIVE StoreItems(_, _, _)
StoreItems(heap, items, stored) ==
    IF items = << >> THEN [heap |-> heap, items |-> stored]
    ELSE LET key == Head(items)[1]
             value == Head(items)[2]
         IN  IF value.t = "dict"
             THEN StoreItems(Append(heap, value.items), Tail(items),
                             Append(stored, <<key, JRef(Len(heap) + 1)>>))
             ELSE StoreItems(heap, Tail(items), Append(stored, <<key, value>>))

\* the heap after the object items was built on it; the object is the last one
Store(heap, items) ==
    LET st == StoreItems(heap, items, << >>) IN Append(st.heap, st.items)

\* the dict at address id with the dicts it refers to written out
Deref(heap, id) ==
    [i \in 1..Len(heap[id]) |->
        LET value == heap[id][i][2]
        IN  <<heap[id][i][1],
              IF value.t = "ref" THEN JDict(heap[value.n]) ELSE value>>]

\* the heap once the module is imported: DEFAULT_MODEL and its inner dicts
ModuleHeap == Store(<< >>, DEFAULT_MODEL)
DefaultModelAddr == Len(ModuleHeap)

\* dict(obj): a new dict with the same items (the same inner objects)
DictCopy(heap, id) == Append(heap, heap[id])

\* a plausible slip: nested = result[key] without the copy, so that update()
\* writes into the inner dict of the base
merge_model_config_step_in_place(heap, result, key, value) ==
    LET cur == DictGet(heap[result], key, JNull)
    IN  IF value.t = "ref" /\ cur.t = "ref"
        THEN [heap EXCEPT ![cur.n] = DictUpdate(@, heap[value.n])]
        ELSE [heap EXCEPT ![result] = DictSet(@, key, value)]

\* one iteration of the loop of merge_model_config
merge_model_config_step(heap, result, key, value) ==
    LET cur == DictGet(heap[result], key, JNull)
    IN  IF value.t = "ref" /\ cur.t = "ref"
        THEN LET nested == Len(heap) + 1
                 copied == DictCopy(heap, cur.n)
                 updated == [copied EXCEPT ![nested] = DictUpdate(@, heap[value.n])]
             IN  [updated EXCEPT ![result] = DictSet(@, key, JRef(nested))]
        ELSE [heap EXCEPT ![result] = DictSet(@, key, value)]

RECURSIVE merge_model_config_loop(_, _, _)
merge_model_config_loop(heap, result, items) ==
    IF items = << >> THEN heap
    ELSE merge_model_config_loop(
            merge_model_config_step(heap, result, Head(items)[1], Head(items)[2]),
            result, Tail(items))

\* merge_model_config(base, override) on addresses: the heap it leaves, on
\* which the returned dict is the object at Len(heap) + 1 of the heap it got
merge_model_config(heap, base, override) ==
    merge_model_config_loop(DictCopy(heap, base), Len(heap) + 1, heap[override])

\* load_model: config_exists is model_config_path.exists(), override the JSON
\* object of the file, model_version_override "" when --model-version is unset;
\* the heap it leaves and the address of the dict it returns
load_model(config_exists, override, model_version_override) ==
    LET copied == DictCopy(ModuleHeap, DefaultModelAddr)
        first == Len(copied)
        loaded == Store(copied, override)
        merged == IF config_exists
                  THEN merge_model_config(loaded, first, Len(loaded))
                  ELSE copied
        result == IF config_exists THEN Len(loaded) + 1 ELSE first
    IN  [heap |-> IF model_version_override # ""
                  THEN [merged EXCEPT ![result] =
                           DictSet(@, "model_version", JStr(model_version_override))]
                  ELSE merged,
         model |-> result]

\* a plausible slip: the clamp is dropped
normalize_feature_unclamped(value, scale) ==
    IF RLe(scale, R(0)) THEN R(0) ELSE RDiv(value, scale)

\* a plausible slip: the guard is `scale == 0`, so that a negative scale divides
normalize_feature_zero_guard(value, scale) ==
    IF scale = R(0) THEN R(0)
    ELSE PyMax(R(0), PyMin(RDiv(value, scale), R(1)))

normalize_feature(value, scale) ==
    IF RLe(scale, R(0)) THEN R(0)
    ELSE PyMax(R(0), PyMin(RDiv(value, scale), R(1)))

\* a plausible slip: medium is tested before high
severity_from_score_medium_first(score, thresholds) ==
    LET medium == Float(DictGet(thresholds, "medium", JNum(40, 1)))
        high == Float(DictGet(thresholds, "high", JNum(70, 1)))
    IN  IF RGe(score, medium) THEN "medium"
        ELSE IF RGe(score, high) THEN "high"
        ELSE "low"

severity_from_score(score, thresholds) ==
    LET medium == Float(DictGet(thresholds, "medium", JNum(40, 1)))
        high == Float(DictGet(thresholds, "high", JNum(70, 1)))
    IN  IF RGe(score, high) THEN "high"
        ELSE IF RGe(score, medium) THEN "medium"
        ELSE "low"

\* str.upper() on the feature names of the model
Upper(str) ==
    CASE str = "unique_daddr" -> "UNIQUE_DADDR"
      [] str = "unique_asn" -> "UNIQUE_ASN"
      [] str = "cloud_asn_unique" -> "CLOUD_ASN_UNIQUE"
      [] str = "bytes_out" -> "BYTES_OUT"
      [] str = "https_ratio" -> "HTTPS_RATIO"
      [] str = "quic_ratio" -> "QUIC_RATIO"
      [] str = "port_entropy" -> "PORT_ENTROPY"
      [] str = "new_asn_ratio" -> "NEW_ASN_RATIO"
      [] str = "dns_ratio" -> "DNS_RATIO"
      [] str = "flow_count" -> "FLOW_COUNT"
      [] OTHER -> str

\* a plausible slip: the fallback is the feature name as it is
reason_code_plain(reason_codes, feature) ==
    DictGet(reason_codes, feature, JStr(feature)).s

\* str(reason_codes.get(feature, feature.upper()))
reason_code(reason_codes, feature) ==
    DictGet(reason_codes, feature, JStr(Upper(feature))).s

\* a plausible slip: sorted(...)[::-1] for reverse=True, which turns the order
\* of equal items around
RECURSIVE InsertRankedTiesReversed(_, _)
InsertRankedTiesReversed(ranked, item) ==
    IF ranked = << >> THEN <<item>>
    ELSE IF RLt(item[2], Head(ranked)[2])
         THEN <<Head(ranked)>> \o InsertRankedTiesReversed(Tail(ranked), item)
         ELSE <<item>> \o ranked

\* sorted(..., key=item[1], reverse=True): stable, descending by contribution
RECURSIVE InsertRanked(_, _)
InsertRanked(ranked, item) ==
    IF ranked = << >> THEN <<item>>
    ELSE IF RGe(Head(ranked)[2], item[2])
         THEN <<Head(ranked)>> \o InsertRanked(Tail(ranked), item)
         ELSE <<item>> \o ranked

RECURSIVE RankFrom(_, _)
RankFrom(ranked, rest) ==
    IF rest = << >> THEN ranked
    ELSE RankFrom(InsertRanked(ranked, Head(rest)), Tail(rest))

\* a plausible slip: `< 0` for `<= 0`, so that idle features are reported
RECURSIVE top_features_nonnegative(_, _)
top_features_nonnegative(ranked, picked) ==
    IF ranked = << >> \/ Len(picked) = 3 THEN picked
    ELSE IF RLt(Head(ranked)[2], R(0))
         THEN top_features_nonnegative(Tail(ranked), picked)
         ELSE top_features_nonnegative(Tail(ranked), Append(picked, Head(ranked)[1]))

\* the loop of build_reasons over ranked: the features whose codes are reported
RECURSIVE top_features(_, _)
top_features(ranked, picked) ==
    IF ranked = << >> \/ Len(picked) = 3 THEN picked
    ELSE IF RLe(Head(ranked)[2], R(0))
         THEN top_features(Tail(ranked), picked)
         ELSE top_features(Tail(ranked), Append(picked, Head(ranked)[1]))

\* while len(reasons) < 3: reasons.append("NONE")
RECURSIVE PadNone(_)
PadNone(reasons) == IF Len(reasons) < 3 THEN PadNone(Append(reasons, "NONE")) ELSE reasons

build_reasons(contrib, reason_codes) ==
    LET picked == top_features(RankFrom(<< >>, contrib), << >>)
    IN  PadNone([i \in 1..Len(picked) |-> reason_code(reason_codes, picked[i])])

\* a plausible slip: the loop runs over scales, with a weight of 1.0 for a
\* feature that has none
contributions_over_scales(feature_row, weights, scales) ==
    [i \in 1..Len(scales) |->
        LET feature_name == scales[i][1]
            weight == Float(DictGet(weights, feature_name, JNum(1, 1)))
            value == to_float(DictGet(feature_row, feature_name, JNum(0, 1)))
            scale == Float(scales[i][2])
        IN  <<feature_name, RMul(normalize_feature(value, scale), weight)>>]

\* the loop of build_score_row: the items of the contributions dict
contributions_of(feature_row, weights, scales) ==
    [i \in 1..Len(weights) |->
        LET feature_name == weights[i][1]
            weight == Float(weights[i][2])
            value == to_float(DictGet(feature_row, feature_name, JNum(0, 1)))
            scale == Float(DictGet(scales, feature_name, JNum(1, 1)))
        IN  <<feature_name, RMul(normalize_feature(value, scale), weight)>>]

\* score += contrib, from 0.0, in the order of the loop
RECURSIVE SumContrib(_, _)
SumContrib(acc, contrib) ==
    IF contrib = << >> THEN acc
    ELSE SumContrib(RAdd(acc, Head(contrib)[2]), Tail(contrib))

\* a plausible slip: only the upper bound is applied
clamp_score_upper(score) == PyMin(score, R(100))

\* max(0.0, min(score, 100.0))
clamp_score(score) == PyMax(R(0), PyMin(score, R(100)))

\* a plausible slip: the built-in threshold is used whatever the model says
is_anom_default(score, anomaly_threshold) == RGe(score, R(70))

\* score >= anomaly_threshold
is_anom_of(score, anomaly_threshold) == RGe(score, anomaly_threshold)

\* build_score_row raises on this row and model: AttributeError on .items() or
\* .get() of a section that is not a dict, ValueError or TypeError on float()
\* of a value that is not a number; scales is read once per weight, the
\* reason codes only for a positive contribution
build_score_row_raises(feature_row, mdl) ==
    LET weights == DictGet(mdl, "weights", JNull)
        scales == DictGet(mdl, "scales", JNull)
        reason_codes == DictGet(mdl, "reason_codes", JNull)
        thresholds == DictGet(mdl, "severity_thresholds", JDict(<< >>))
    IN  \/ float_raises(DictGet(mdl, "anomaly_threshold", JNum(70, 1)))
        \/ weights.t # "dict"
        \/ \E i \in 1..Len(weights.items) :
              \/ float_raises(weights.items[i][2])
              \/ scales.t # "dict"
              \/ float_raises(DictGet(scales.items, weights.items[i][1], JNum(1, 1)))
        \/ thresholds.t # "dict"
        \/ float_raises(DictGet(thresholds.items, "medium", JNum(40, 1)))
        \/ float_raises(DictGet(thresholds.items, "high", JNum(70, 1)))
        \/ /\ reason_codes.t # "dict"
           /\ \E i \in 1..Len(weights.items) :
                 RLt(R(0), contributions_of(feature_row, weights.items,
                                            scales.items)[i][2])

\* the scoring part of build_score_row (the denormalized feature columns, the
\* window bounds and the labels are copied through and left out); the locals
\* contributions and reasons are returned beside the fields of the score row
build_score_row(feature_row, mdl) ==
    LET weights == DictGet(mdl, "weights", JNull).items
        scales == DictGet(mdl, "scales", JNull).items
        reason_codes == DictGet(mdl, "reason_codes", JNull).items
        anomaly_threshold == Float(DictGet(mdl, "anomaly_threshold", JNum(70, 1)))
        contrib == contributions_of(feature_row, weights, scales)
        score == clamp_score(SumContrib(R(0), contrib))
        severity == severity_from_score(
                        score, DictGet(mdl, "severity_thresholds", JDict(<< >>)).items)
        reasons == build_reasons(contrib, reason_codes)
    IN  [contributions |-> contrib,
         reasons |-> reasons,
         score |-> score,
         severity |-> severity,
         is_anom |-> is_anom_of(score, anomaly_threshold),
         reason_1 |-> reasons[1],
         reason_2 |-> reasons[2],
         reason_3 |-> reasons[3]]

(***************************************************************************)
(* Feature run: two runs of build_feature_rows over the same archive       *)
(***************************************************************************)
FeatInit ==
    /\ window_seconds \in WindowChoices
    /\ input = EmptyBag
    /\ todo = [r \in Runs |-> EmptyBag]
    /\ processed = [r \in Runs |-> 0]
    /\ aggregates = [r \in Runs |-> << >>]
    /\ order = [r \in Runs |-> << >>]
    /\ rows = [r \in Runs |-> << >>]
    /\ pc = [r \in Runs |-> "idle"]

\* the capture side archives one more flow record
Capture(rec) ==
    /\ \A r \in Runs : pc[r] = "idle"
    /\ BagCardinality(input) < MaxRecs
    /\ input' = input (+) SetToBag({rec})
    /\ UNCHANGED <<window_seconds, todo, processed, aggregates, order, rows, pc>>
    /\ UNCHANGED <<rowVars, scoreVars, stateVars, pipeVars>>

\* main() calls build_feature_rows, which starts on its first file; the second
\* run is a re-run over the same records, split over files and ordered in any
\* other way
StartRun(r) ==
    /\ pc[r] = "idle"
    /\ r = 2 => pc[1] = "done"
    /\ input # EmptyBag
    /\ todo' = [todo EXCEPT ![r] = input]
    /\ pc' = [pc EXCEPT ![r] = "ingest"]
    /\ UNCHANGED <<window_seconds, input, processed, aggregates, order, rows>>
    /\ UNCHANGED <<rowVars, scoreVars, stateVars, pipeVars>>

\* one iteration of `for record in stream_ra_rows(path)`
IngestRecord(r, rec) ==
    /\ pc[r] = "ingest"
    /\ BagIn(rec, todo[r])
    /\ todo' = [todo EXCEPT ![r] = @ (-) SetToBag({rec})]
    /\ aggregates' = [aggregates EXCEPT ![r] = IngestInto(@, rec, window_seconds)]
    /\ order' = [order EXCEPT ![r] =
                    IF RecordKey(rec, window_seconds) \in DOMAIN aggregates[r]
                    THEN @ ELSE Append(@, RecordKey(rec, window_seconds))]
    /\ UNCHANGED <<window_seconds, input, processed, rows, pc>>
    /\ UNCHANGED <<rowVars, scoreVars, stateVars, pipeVars>>

\* a plausible slip: the state file is rewritten as each file is completed
NextFileCheckpointed(r) ==
    /\ pc[r] = "ingest"
    /\ processed[r] + 1 < MaxFiles
    /\ processed' = [processed EXCEPT ![r] = @ + 1]
    /\ state_count' = processed[r] + 1
    /\ UNCHANGED <<window_seconds, input, todo, aggregates, order, rows, pc>>
    /\ UNCHANGED <<raw_row, outcome, record, rows_read, failure, parquet>>
    /\ UNCHANGED <<scoreVars, stateVars, pipeVars>>

\* a file's generator is exhausted: processed_rel_paths.append(rel_path), and
\* the loop goes on to the next file
NextFile(r) ==
    /\ pc[r] = "ingest"
    /\ processed[r] + 1 < MaxFiles
    /\ processed' = [processed EXCEPT ![r] = @ + 1]
    /\ UNCHANGED <<window_seconds, input, todo, aggregates, order, rows, pc>>
    /\ UNCHANGED <<rowVars, scoreVars, stateVars, pipeVars>>

\* the last file is exhausted: staged rows, sort, novelty pass, return (the
\* dict's iteration order is not part of what is returned)
Finalize(r) ==
    /\ pc[r] = "ingest"
    /\ todo[r] = EmptyBag
    /\ processed' = [processed EXCEPT ![r] = @ + 1]
    /\ rows' = [rows EXCEPT ![r] = FinalRows(aggregates[r], order[r], window_seconds)]
    /\ order' = [order EXCEPT ![r] = << >>]
    /\ pc' = [pc EXCEPT ![r] = "done"]
    /\ UNCHANGED <<window_seconds, input, todo, aggregates>>
    /\ UNCHANGED <<rowVars, scoreVars, stateVars, pipeVars>>

(***************************************************************************)
(* Feature run over the raw output of ra: stream_ra_rows row by row, the   *)
(* exit of ra at the end of each file, and the writes of main()            *)
(***************************************************************************)
MaxRows == 2

\* the texts of the model
T_h1 == <<"h", "1">>
T_d1 == <<"d", "1">>
T_5 == <<"5">>
T_7 == <<"7">>
T_inf == <<"i", "n", "f">>
T_nan == <<"n", "a", "n">>
T_dash == <<"-">>
T_15169 == <<"1", "5", "1", "6", "9">>

\* a well-formed row: stime 1.5, saddr h1, daddr d1, TCP to https, AS15169
BaseRow ==
    [stime |-> <<"1", ".", "5">>, dur |-> <<"0">>, saddr |-> T_h1, daddr |-> T_d1,
     proto |-> <<"T", "C", "P">>, dport |-> <<"h", "t", "t", "p", "s">>,
     das |-> <<"A", "S">> \o T_15169, sbytes |-> T_5, dbytes |-> T_7]

RawStimes ==
    { <<"1", "0", "0", "0">>, <<"S", "t", "a", "r", "t", "T", "i", "m", "e">>,
      T_nan, T_inf, << >> }
RawSaddrs == { <<" ", "h", "2", " ">>, << >>, <<" ">> }
RawProtoPorts ==
    { [proto |-> <<"U", "D", "P">>, dport |-> <<"4", "4", "3">>],
      [proto |-> <<"u", "d", "p">>, dport |-> <<"5", "3">>],
      [proto |-> <<"t", "c", "p">>, dport |-> T_dash] }
RawAsns ==
    { <<" ", "a", "s">> \o T_15169 \o <<" ">>, T_15169, T_dash, <<"-", "-">>,
      <<"0">>, << >>, <<" ">>,
      <<"u", "n", "k", "n", "o", "w", "n">>, <<"U", "N", "K", "N", "O", "W", "N">>,
      <<"U", "n", "k", "n", "o", "w", "n">>,
      <<"A", "S">>, <<"A", "S", "0">>,
      <<"1", "5", "A", "S", "1", "6", "9">>,
      <<"6", "4", "5", "0", "0">> }
RawByteCounts ==
    { <<"-", "5">>, T_inf, <<"-">> \o T_inf, T_nan, <<"2", ".", "9">>,
      <<"a", "b", "c">>, <<" ", "1", "2", " ">>, T_dash, << >> }

RowOf(f) ==
    <<f.stime, f.dur, f.saddr, f.daddr, f.proto, f.dport, f.das, f.sbytes, f.dbytes>>

\* the rows csv.reader may give: the well-formed row, the rows that differ from
\* it in one field (in two for an empty saddr beside an infinite count), an
\* empty line and a row with too few fields
RawRows ==
    {RowOf(BaseRow), << >>, <<BaseRow.stime, BaseRow.dur, BaseRow.saddr>>,
     RowOf([BaseRow EXCEPT !.saddr = << >>, !.sbytes = T_inf])}
    \cup {RowOf([BaseRow EXCEPT !.stime = t]) : t \in RawStimes}
    \cup {RowOf([BaseRow EXCEPT !.saddr = a]) : a \in RawSaddrs}
    \cup {RowOf([BaseRow EXCEPT !.proto = pp.proto, !.dport = pp.dport])
            : pp \in RawProtoPorts}
    \cup {RowOf([BaseRow EXCEPT !.das = a]) : a \in RawAsns}
    \cup {RowOf([BaseRow EXCEPT !.sbytes = b]) : b \in RawByteCounts}
    \cup {RowOf([BaseRow EXCEPT !.dbytes = b]) : b \in {<<"-", "7">>, T_inf}}

\* the value of record before a row was yielded
NoRecord ==
    [stime |-> R(0), saddr |-> "", daddr |-> "", proto |-> "", dport |-> "",
     das |-> "", sbytes |-> 0, dbytes |-> 0]

RowInit ==
    /\ raw_row = << >>
    /\ outcome = ""
    /\ record = NoRecord
    /\ rows_read = 0
    /\ failure = ""
    /\ parquet = << >>
    /\ state_count = 0

\* main() calls build_feature_rows on the files selected
StartRows ==
    /\ pc[1] = "idle"
    /\ pc' = [pc EXCEPT ![1] = "ingest"]
    /\ UNCHANGED <<window_seconds, input, todo, processed, aggregates, order, rows>>
    /\ UNCHANGED <<rowVars, scoreVars, stateVars, pipeVars>>

\* stream_ra_rows skips the row: too few fields, a stime float() rejects, an
\* empty saddr
DropRow(row) ==
    /\ pc[1] = "ingest"
    /\ rows_read < MaxRows
    /\ parse_row(row).outcome = "drop"
    /\ raw_row' = row
    /\ outcome' = "drop"
    /\ rows_read' = rows_read + 1
    /\ UNCHANGED <<record, failure, parquet, state_count>>
    /\ UNCHANGED <<featVars, scoreVars, stateVars, pipeVars>>

\* stream_ra_rows yields a record and the loop body of build_feature_rows
\* accumulates it
IngestRow(row) ==
    /\ pc[1] = "ingest"
    /\ rows_read < MaxRows
    /\ \E out \in {parse_row(row)} :
          /\ out.outcome = "yield"
          /\ record' = out.record
          /\ aggregates' = [aggregates EXCEPT ![1] =
                               IngestInto(@, out.record, window_seconds)]
          /\ order' = [order EXCEPT ![1] =
                          IF RecordKey(out.record, window_seconds)
                                \in DOMAIN aggregates[1]
                          THEN @ ELSE Append(@, RecordKey(out.record, window_seconds))]
    /\ raw_row' = row
    /\ outcome' = "yield"
    /\ rows_read' = rows_read + 1
    /\ UNCHANGED <<failure, parquet, state_count>>
    /\ UNCHANGED <<window_seconds, input, todo, processed, rows, pc>>
    /\ UNCHANGED <<scoreVars, stateVars, pipeVars>>

\* an exception leaves the run on this row: OverflowError from int(float(..))
\* in parse_int_like passes the `except ValueError` of stream_ra_rows, and
\* int(record["stime"]) raises in build_feature_rows on a NaN or infinite stime
RowRaises(row) ==
    /\ pc[1] = "ingest"
    /\ rows_read < MaxRows
    /\ \E out \in {parse_row(row)} :
          /\ out.outcome \in {"raise", "raise_consumer"}
          /\ failure' = IF out.outcome = "raise" THEN "parse_int_like"
                        ELSE "build_feature_rows"
    /\ raw_row' = row
    /\ outcome' = "raise"
    /\ rows_read' = rows_read + 1
    /\ pc' = [pc EXCEPT ![1] = "failed"]
    /\ UNCHANGED <<record, parquet, state_count>>
    /\ UNCHANGED <<window_seconds, input, todo, processed, aggregates, order, rows>>
    /\ UNCHANGED <<scoreVars, stateVars, pipeVars>>

\* ra's output is exhausted and proc.wait() gives a non-zero code: the
\* RuntimeError of stream_ra_rows leaves build_feature_rows and main()
RaFails ==
    /\ pc[1] = "ingest"
    /\ failure' = "stream_ra_rows"
    /\ pc' = [pc EXCEPT ![1] = "failed"]
    /\ UNCHANGED <<raw_row, outcome, record, rows_read, parquet, state_count>>
    /\ UNCHANGED <<window_seconds, input, todo, processed, aggregates, order, rows>>
    /\ UNCHANGED <<scoreVars, stateVars, pipeVars>>

\* main() after build_feature_rows returned, without --dry-run:
\* write_parquet_dataset(rows), then write_state with processed_files added
WriteOutputs ==
    /\ pc[1] = "done"
    /\ parquet' = rows[1]
    /\ state_count' = processed[1]
    /\ pc' = [pc EXCEPT ![1] = "written"]
    /\ UNCHANGED <<raw_row, outcome, record, rows_read, failure>>
    /\ UNCHANGED <<window_seconds, input, todo, processed, aggregates, order, rows>>
    /\ UNCHANGED <<scoreVars, stateVars, pipeVars>>

\* main() after build_feature_rows returned, with --dry-run: only the manifest
DryRun ==
    /\ pc[1] = "done"
    /\ pc' = [pc EXCEPT ![1] = "dry"]
    /\ UNCHANGED <<window_seconds, input, todo, processed, aggregates, order, rows>>
    /\ UNCHANGED <<rowVars, scoreVars, stateVars, pipeVars>>

(***************************************************************************)
(* Scoring run: load_model, then build_score_row on each feature row       *)
(***************************************************************************)
Opt(cond, key, value) == IF cond THEN << <<key, value>> >> ELSE << >>

\* the sections a model configuration file may override
WeightOverrides ==
    { << >>,
      << <<"A", JNum(18, 1)>> >>,
      << <<"unique_daddr", JNum(-20, 1)>>, <<"A", JNum(-3, 1)>> >>,
      << <<"unique_daddr", JNum(120, 1)>> >>,
      << <<"dns_ratio", JNum(16, 1)>>, <<"A", JNum(16, 1)>> >> }
ScaleOverrides ==
    { << >>,
      << <<"unique_daddr", JNum(0, 1)>> >>,
      << <<"unique_daddr", JNum(-50, 1)>>, <<"flow_count", JNum(10, 1)>> >>,
      << <<"A", JNum(2, 1)>> >> }
ReasonOverrides ==
    { << >>,
      << <<"flow_count", JStr("MANY_FLOWS")>>, <<"A", JStr("CODE_A")>> >> }
\* severity_thresholds and anomaly_threshold: the defaults, medium above high
\* with the anomaly cut above both, and the anomaly cut below high; more holds
\* the other top-level keys of the document
ThresholdOverrides ==
    { [sev |-> << >>, anom |-> JNull, more |-> << >>],
      [sev |-> << <<"medium", JNum(80, 1)>>, <<"high", JNum(10, 1)>> >>,
       anom |-> JNum(90, 1),
       more |-> << <<"model_version", JStr("shadowit-v2")>> >>],
      [sev |-> << <<"high", JNum(20, 1)>> >>, anom |-> JNum(15, 1),
       more |-> << <<"notes", JDict(<< <<"owner", JStr("soc")>> >>)>> >>] }

\* the JSON objects of the model configuration files of the model
Overrides ==
    { Opt(w # << >>, "weights", JDict(w))
      \o Opt(sc # << >>, "scales", JDict(sc))
      \o Opt(rc # << >>, "reason_codes", JDict(rc))
      \o Opt(th.sev # << >>, "severity_thresholds", JDict(th.sev))
      \o Opt(th.anom # JNull, "anomaly_threshold", th.anom)
      \o th.more
      : w \in WeightOverrides, sc \in ScaleOverrides, rc \in ReasonOverrides,
        th \in ThresholdOverrides }

\* configuration files whose sections or values have the wrong type
InvalidObjects ==
    { << <<"weights", JNum(5, 1)>> >>,
      << <<"scales", JStr("wide")>> >>,
      << <<"reason_codes", JNum(1, 1)>> >>,
      << <<"severity_thresholds", JList>> >>,
      << <<"weights", JDict(<< <<"unique_daddr", JStr("heavy")>> >>)>> >>,
      << <<"weights", JDict(<< <<"unique_daddr", JStr("12")>> >>)>> >>,
      << <<"scales", JDict(<< <<"unique_daddr", JNull>> >>)>> >>,
      << <<"scales", JDict(<< <<"flow_count", JStr("wide")>> >>)>> >>,
      << <<"severity_thresholds", JDict(<< <<"high", JStr("top")>> >>)>> >>,
      << <<"anomaly_threshold", JStr("top")>> >> }

\* configuration files that are not a JSON object
InvalidDocuments == {Unparsable, JList, JNum(5, 1)}

\* load_json raises on the document
load_json_raises(doc) == doc.t # "dict"

\* the most batches of 5000 lines publish_to_influx has to send
MaxBatches == 2

\* model_config_path does not exist
NoFile == JStr("<no file>")

\* the columns of the feature rows of the model; JNull is a null cell and
\* Absent a column the feature file does not have
Absent == JStr("<absent>")
UniqueDaddrCells == {Absent, JNull, JNum(10, 1), JNum(100, 1), JNum(-5, 1)}
UniqueAsnCells == {Absent, JNum(20, 1)}
CloudAsnCells == {Absent, JNum(8, 1)}
ACells == {Absent, JNum(1, 1), JNum(5, 1)}
DnsRatioCells == {Absent, JNum(1, 1)}
FlowCountCells == {Absent, JNum(7, 1)}

FeatureRows ==
    { Opt(ud # Absent, "unique_daddr", ud)
      \o Opt(ua # Absent, "unique_asn", ua)
      \o Opt(ca # Absent, "cloud_asn_unique", ca)
      \o Opt(a # Absent, "A", a)
      \o Opt(dr # Absent, "dns_ratio", dr)
      \o Opt(fc # Absent, "flow_count", fc)
      : ud \in UniqueDaddrCells, ua \in UniqueAsnCells, ca \in CloudAsnCells,
        a \in ACells, dr \in DnsRatioCells, fc \in FlowCountCells }

ScoreInit ==
    /\ model = << >>
    /\ in_row = << >>
    /\ contributions = << >>
    /\ top3 = << >>
    /\ reason_list = << >>
    /\ score_row = << >>
    /\ spc = "start"
    /\ config = NoFile
    /\ failed_in = ""
    /\ default_model = DEFAULT_MODEL
    /\ sinks = [parquet |-> FALSE, state |-> FALSE, publish |-> FALSE,
                batches |-> 0, published |-> 0]

\* main(): model = load_model(...) with a configuration file
LoadModel(override) ==
    /\ spc = "start"
    /\ \E out \in {load_model(TRUE, override, "")} :
          /\ model' = Deref(out.heap, out.model)
          /\ default_model' = Deref(out.heap, DefaultModelAddr)
    /\ config' = JDict(override)
    /\ spc' = "loaded"
    /\ UNCHANGED <<in_row, contributions, top3, reason_list, score_row, failed_in>>
    /\ UNCHANGED sinks
    /\ UNCHANGED <<featVars, rowVars, stateVars, pipeVars>>

\* load_json raises inside load_model: json.load on a file that is not JSON, or
\* the ValueError for a document that is not an object
LoadModelRaises(doc) ==
    /\ spc = "start"
    /\ load_json_raises(doc)
    /\ config' = doc
    /\ failed_in' = "load_model"
    /\ spc' = "failed"
    /\ UNCHANGED <<model, in_row, contributions, top3, reason_list, score_row,
                   default_model>>
    /\ UNCHANGED sinks
    /\ UNCHANGED <<featVars, rowVars, stateVars, pipeVars>>

\* main(): model = load_model(...) when the configuration file does not exist
LoadDefaultModel ==
    /\ spc = "start"
    /\ \E out \in {load_model(FALSE, << >>, "")} :
          /\ model' = Deref(out.heap, out.model)
          /\ default_model' = Deref(out.heap, DefaultModelAddr)
    /\ config' = NoFile
    /\ spc' = "loaded"
    /\ UNCHANGED <<in_row, contributions, top3, reason_list, score_row, failed_in>>
    /\ UNCHANGED sinks
    /\ UNCHANGED <<featVars, rowVars, stateVars, pipeVars>>

\* score_rows.append(build_score_row(in_row, model))
BuildScoreRow(row) ==
    /\ spc = "loaded"
    /\ ~build_score_row_raises(row, model)
    /\ \E out \in {build_score_row(row, model)} :
          /\ in_row' = row
          /\ contributions' = out.contributions
          /\ top3' = top_features(RankFrom(<< >>, out.contributions), << >>)
          /\ reason_list' = out.reasons
          /\ score_row' = [score |-> out.score, severity |-> out.severity,
                           is_anom |-> out.is_anom, reason_1 |-> out.reason_1,
                           reason_2 |-> out.reason_2, reason_3 |-> out.reason_3]
    /\ spc' = "scored"
    /\ UNCHANGED <<model, config, failed_in, default_model>>
    /\ UNCHANGED sinks
    /\ UNCHANGED <<featVars, rowVars, stateVars, pipeVars>>

\* build_score_row raises on a row of the feature file just read; the
\* exception leaves main()
BuildScoreRowRaises(row) ==
    /\ spc = "loaded"
    /\ build_score_row_raises(row, model)
    /\ failed_in' = "build_score_row"
    /\ spc' = "failed"
    /\ UNCHANGED <<model, in_row, contributions, top3, reason_list, score_row,
                   config, default_model>>
    /\ UNCHANGED sinks
    /\ UNCHANGED <<featVars, rowVars, stateVars, pipeVars>>

\* the loop goes on to the next feature row
NextRow ==
    /\ spc = "scored"
    /\ in_row' = << >>
    /\ contributions' = << >>
    /\ top3' = << >>
    /\ reason_list' = << >>
    /\ score_row' = << >>
    /\ spc' = "loaded"
    /\ UNCHANGED <<model, config, failed_in, default_model>>
    /\ UNCHANGED sinks
    /\ UNCHANGED <<featVars, rowVars, stateVars, pipeVars>>

\* pq.read_table raises on a feature file, the first or a later one
ReadTableRaises ==
    /\ spc = "loaded"
    /\ failed_in' = "read_table"
    /\ spc' = "failed"
    /\ UNCHANGED <<model, in_row, contributions, top3, reason_list, score_row,
                   config, default_model, sinks>>
    /\ UNCHANGED <<featVars, rowVars, stateVars, pipeVars>>

\* the last row of the last feature file was scored: the loops of main() end
EndLoop ==
    /\ spc = "scored"
    /\ in_row' = << >>
    /\ contributions' = << >>
    /\ top3' = << >>
    /\ reason_list' = << >>
    /\ score_row' = << >>
    /\ spc' = "built"
    /\ UNCHANGED <<model, config, failed_in, default_model, sinks>>
    /\ UNCHANGED <<featVars, rowVars, stateVars, pipeVars>>

\* --dry-run: neither writes nor publishes, only the manifest
DryRunScores ==
    /\ spc = "built"
    /\ spc' = "done"
    /\ UNCHANGED <<model, in_row, contributions, top3, reason_list, score_row,
                   config, failed_in, default_model, sinks>>
    /\ UNCHANGED <<featVars, rowVars, stateVars, pipeVars>>

\* write_parquet_scores(score_rows), then write_state with the files of the
\* run added
WriteScores ==
    /\ spc = "built"
    /\ sinks' = [sinks EXCEPT !.parquet = TRUE, !.state = TRUE]
    /\ spc' = "written"
    /\ UNCHANGED <<model, in_row, contributions, top3, reason_list, score_row,
                   config, failed_in, default_model>>
    /\ UNCHANGED <<featVars, rowVars, stateVars, pipeVars>>

\* without --publish-influx: the manifest, return 0
FinishUnpublished ==
    /\ spc = "written"
    /\ spc' = "done"
    /\ UNCHANGED <<model, in_row, contributions, top3, reason_list, score_row,
                   config, failed_in, default_model, sinks>>
    /\ UNCHANGED <<featVars, rowVars, stateVars, pipeVars>>

\* --publish-influx: build_publish_config raises ValueError on a missing
\* setting
BuildPublishConfigRaises ==
    /\ spc = "written"
    /\ sinks' = [sinks EXCEPT !.publish = TRUE]
    /\ failed_in' = "build_publish_config"
    /\ spc' = "failed"
    /\ UNCHANGED <<model, in_row, contributions, top3, reason_list, score_row,
                   config, default_model>>
    /\ UNCHANGED <<featVars, rowVars, stateVars, pipeVars>>

\* --publish-influx: build_publish_config, build_influx_lines; publish_to_influx
\* has n batches of lines to send
BuildPublishConfig(n) ==
    /\ spc = "written"
    /\ sinks' = [sinks EXCEPT !.publish = TRUE, !.batches = n]
    /\ spc' = IF n = 0 THEN "done" ELSE "publishing"
    /\ UNCHANGED <<model, in_row, contributions, top3, reason_list, score_row,
                   config, failed_in, default_model>>
    /\ UNCHANGED <<featVars, rowVars, stateVars, pipeVars>>

\* one iteration of the loop of publish_to_influx: the POST succeeds
PublishBatch ==
    /\ spc = "publishing"
    /\ sinks' = [sinks EXCEPT !.published = @ + 1]
    /\ spc' = IF sinks.published + 1 = sinks.batches THEN "done" ELSE "publishing"
    /\ UNCHANGED <<model, in_row, contributions, top3, reason_list, score_row,
                   config, failed_in, default_model>>
    /\ UNCHANGED <<featVars, rowVars, stateVars, pipeVars>>

\* one iteration of the loop of publish_to_influx: urlopen raises
PublishBatchRaises ==
    /\ spc = "publishing"
    /\ failed_in' = "publish_to_influx"
    /\ spc' = "failed"
    /\ UNCHANGED <<model, in_row, contributions, top3, reason_list, score_row,
                   config, default_model, sinks>>
    /\ UNCHANGED <<featVars, rowVars, stateVars, pipeVars>>

(***************************************************************************)
(* stream_ra_rows and its child process ra, joined by the two pipes of     *)
(* Popen(stdout=PIPE, stderr=PIPE).  Data is counted in units: a write     *)
(* adds a unit to a pipe and blocks while the pipe holds PipeCap units; a  *)
(* read blocks while the pipe is empty and its write end is open.          *)
(***************************************************************************)
PipeCap == 2
MaxWrites == 4

\* what ra writes, in its order: a sequence of units for stdout ("out") and
\* stderr ("err")
RECURSIVE Scripts(_)
Scripts(n) ==
    IF n = 0 THEN {<< >>}
    ELSE Scripts(n - 1) \cup
         {Append(sc, w) : sc \in {x \in Scripts(n - 1) : Len(x) = n - 1},
                          w \in {"out", "err"}}

ExitCodes == {0, 1}

NoChild == [script |-> << >>, code |-> 0, running |-> FALSE]

PipeInit ==
    /\ child = NoChild
    /\ stdout_pipe = 0
    /\ stderr_pipe = 0
    /\ ppc = "start"
    /\ stderr_text = 0

\* subprocess.Popen(cmd, stdout=PIPE, stderr=PIPE, ...); csv.reader(proc.stdout)
Popen(script, code) ==
    /\ ppc = "start"
    /\ child' = [script |-> script, code |-> code, running |-> TRUE]
    /\ ppc' = "read_stdout"
    /\ UNCHANGED <<stdout_pipe, stderr_pipe, stderr_text>>
    /\ UNCHANGED <<featVars, rowVars, scoreVars, stateVars>>

\* ra writes its next unit to stdout; the write waits while the pipe is full
ChildWriteStdout ==
    /\ child.running
    /\ child.script # << >>
    /\ Head(child.script) = "out"
    /\ stdout_pipe < PipeCap
    /\ stdout_pipe' = stdout_pipe + 1
    /\ child' = [child EXCEPT !.script = Tail(@)]
    /\ UNCHANGED <<stderr_pipe, ppc, stderr_text>>
    /\ UNCHANGED <<featVars, rowVars, scoreVars, stateVars>>

\* ra writes its next unit to stderr; the write waits while the pipe is full
ChildWriteStderr ==
    /\ child.running
    /\ child.script # << >>
    /\ Head(child.script) = "err"
    /\ stderr_pipe < PipeCap
    /\ stderr_pipe' = stderr_pipe + 1
    /\ child' = [child EXCEPT !.script = Tail(@)]
    /\ UNCHANGED <<stdout_pipe, ppc, stderr_text>>
    /\ UNCHANGED <<featVars, rowVars, scoreVars, stateVars>>

\* ra has written everything and exits: the write ends of both pipes close
ChildExit ==
    /\ child.running
    /\ child.script = << >>
    /\ child' = [child EXCEPT !.running = FALSE]
    /\ UNCHANGED <<stdout_pipe, stderr_pipe, ppc, stderr_text>>
    /\ UNCHANGED <<featVars, rowVars, scoreVars, stateVars>>

\* `for row in reader`: the reader gets a unit of stdout, the loop body skips
\* the row or yields its record, and the consumer asks for the next
ReadStdout ==
    /\ ppc = "read_stdout"
    /\ stdout_pipe > 0
    /\ stdout_pipe' = stdout_pipe - 1
    /\ UNCHANGED <<child, stderr_pipe, ppc, stderr_text>>
    /\ UNCHANGED <<featVars, rowVars, scoreVars, stateVars>>

\* the reader meets end-of-file on stdout: the pipe is empty and its write
\* end is closed; the loop ends
StdoutEof ==
    /\ ppc = "read_stdout"
    /\ stdout_pipe = 0
    /\ ~child.running
    /\ ppc' = "read_stderr"
    /\ UNCHANGED <<child, stdout_pipe, stderr_pipe, stderr_text>>
    /\ UNCHANGED <<featVars, rowVars, scoreVars, stateVars>>

\* proc.stderr.read() takes what the pipe holds and goes on reading
ReadStderr ==
    /\ ppc = "read_stderr"
    /\ stderr_pipe > 0
    /\ stderr_text' = stderr_text + stderr_pipe
    /\ stderr_pipe' = 0
    /\ UNCHANGED <<child, stdout_pipe, ppc>>
    /\ UNCHANGED <<featVars, rowVars, scoreVars, stateVars>>

\* proc.stderr.read() meets end-of-file and returns
StderrEof ==
    /\ ppc = "read_stderr"
    /\ stderr_pipe = 0
    /\ ~child.running
    /\ ppc' = "wait"
    /\ UNCHANGED <<child, stdout_pipe, stderr_pipe, stderr_text>>
    /\ UNCHANGED <<featVars, rowVars, scoreVars, stateVars>>

\* code = proc.wait(); RuntimeError when code != 0, else the generator ends
Wait ==
    /\ ppc = "wait"
    /\ ~child.running
    /\ ppc' = IF child.code # 0 THEN "raised" ELSE "returned"
    /\ UNCHANGED <<child, stdout_pipe, stderr_pipe, stderr_text>>
    /\ UNCHANGED <<featVars, rowVars, scoreVars, stateVars>>

(***************************************************************************)
(* The processed-files state over several runs: main() of either program,  *)
(* from load_state and the selection of the input files to write_state     *)
(***************************************************************************)
MaxArchive == 3
MaxRuns == 3

\* build_l2_features.py and score_shadowit.py, each with its own input root
\* and its own state file
Programs == {"features", "scores"}

\* the files that may appear under an input root; a file's number is the rank
\* of its path in sorted()
ArchiveFiles == 1..MaxArchive

\* None as a timestamp
NoTs == 0

\* parse_file_timestamp: files 1 and 2 are argus.<time>.out files of the times
\* 10 and 20, the others have names it does not parse
parse_file_timestamp(path) == IF path <= 2 THEN 10 * path ELSE NoTs

\* sorted(...) of a set of paths
RECURSIVE Sorted(_)
Sorted(paths) ==
    IF paths = {} THEN << >>
    ELSE LET first == CHOOSE x \in paths : \A y \in paths : x <= y
         IN <<first>> \o Sorted(paths \ {first})

Range(seq) == {seq[i] : i \in 1..Len(seq)}

\* the loop of list_input_files over the candidates left
RECURSIVE list_input_files_loop(_, _, _, _, _, _, _)
list_input_files_loop(candidates, selected, from_ts, to_ts, max_files, already_processed, reprocess) ==
    IF candidates = << >> THEN selected
    ELSE LET path == Head(candidates)
             file_ts == parse_file_timestamp(path)
             skipped ==
                 \/ file_ts # NoTs /\ from_ts # NoTs /\ file_ts < from_ts
                 \/ file_ts # NoTs /\ to_ts # NoTs /\ file_ts >= to_ts
                 \/ ~reprocess /\ path \in already_processed
         IN IF skipped
            THEN list_input_files_loop(Tail(candidates), selected, from_ts, to_ts,
                                       max_files, already_processed, reprocess)
            ELSE IF max_files > 0 /\ Len(selected) + 1 >= max_files
            THEN Append(selected, path)
            ELSE list_input_files_loop(Tail(candidates), Append(selected, path),
                                       from_ts, to_ts, max_files,
                                       already_processed, reprocess)

list_input_files(input_root, from_ts, to_ts, max_files, already_processed, reprocess) ==
    list_input_files_loop(Sorted(input_root), << >>, from_ts, to_ts, max_files,
                          already_processed, reprocess)

\* the loop of list_feature_parquet_files over the files left
RECURSIVE list_feature_parquet_files_loop(_, _, _, _, _)
list_feature_parquet_files_loop(paths, selected, done, reprocess, max_files) ==
    IF paths = << >> THEN selected
    ELSE LET path == Head(paths)
         IN IF ~reprocess /\ path \in done
            THEN list_feature_parquet_files_loop(Tail(paths), selected, done,
                                                 reprocess, max_files)
            ELSE IF max_files > 0 /\ Len(selected) + 1 >= max_files
            THEN Append(selected, path)
            ELSE list_feature_parquet_files_loop(Tail(paths),
                                                 Append(selected, path), done,
                                                 reprocess, max_files)

list_feature_parquet_files(input_root, done, reprocess, max_files) ==
    list_feature_parquet_files_loop(Sorted(input_root), << >>, done, reprocess,
                                    max_files)

\* load_state: the set the state file records, set() when there is no file
load_state(recorded_files) == recorded_files

\* the command lines of the model; the scoring run has no time filter
TimeFilters == {<<NoTs, NoTs>>, <<15, NoTs>>, <<NoTs, 15>>}

CommandLine(p, re, m, t, dry) ==
    [program |-> p, reprocess |-> re, max_files |-> m, from_ts |-> t[1],
     to_ts |-> t[2], dry_run |-> dry]

CommandLines ==
    { CommandLine("features", re, m, t, dry) :
        re \in BOOLEAN, m \in 0..1, t \in TimeFilters, dry \in BOOLEAN }
    \cup
    { CommandLine("scores", re, m, <<NoTs, NoTs>>, dry) :
        re \in BOOLEAN, m \in 0..1, dry \in BOOLEAN }

NoArgs ==
    [program |-> "", reprocess |-> FALSE, max_files |-> 0, from_ts |-> NoTs,
     to_ts |-> NoTs, dry_run |-> FALSE]

StateInit ==
    /\ archive = [p \in Programs |-> {}]
    /\ state_file = [p \in Programs |-> {}]
    /\ args = NoArgs
    /\ processed_state = {}
    /\ files = << >>
    /\ processed_files = << >>
    /\ rpc = "idle"
    /\ runs = 0
    /\ recorded = [p \in Programs |-> {}]

\* a new file appears under the input root of a program
ArchiveFile(p, path) ==
    /\ path \notin archive[p]
    /\ archive' = [archive EXCEPT ![p] = @ \cup {path}]
    /\ UNCHANGED <<state_file, args, processed_state, files, processed_files,
                   rpc, runs, recorded>>
    /\ UNCHANGED <<featVars, rowVars, scoreVars, pipeVars>>

\* main() up to the selection of the files: processed_state, files
SelectedFiles(a, state) ==
    IF a.program = "features"
    THEN list_input_files(archive[a.program], a.from_ts, a.to_ts, a.max_files,
                          state, a.reprocess)
    ELSE list_feature_parquet_files(archive[a.program], state, a.reprocess,
                                    a.max_files)

\* main() is started and selects files to process
StartMain(a) ==
    /\ rpc = "idle"
    /\ runs < MaxRuns
    /\ LET state == IF a.reprocess THEN {} ELSE load_state(state_file[a.program])
           selected == SelectedFiles(a, state)
       IN /\ selected # << >>
          /\ processed_state' = state
          /\ files' = selected
    /\ args' = a
    /\ processed_files' = << >>
    /\ rpc' = "files"
    /\ runs' = runs + 1
    /\ UNCHANGED <<archive, state_file, recorded>>
    /\ UNCHANGED <<featVars, rowVars, scoreVars, pipeVars>>

\* main() is started and finds no file: "Nothing to process", return 0
NothingToProcess(a) ==
    /\ rpc = "idle"
    /\ runs < MaxRuns
    /\ LET state == IF a.reprocess THEN {} ELSE load_state(state_file[a.program])
       IN SelectedFiles(a, state) = << >>
    /\ runs' = runs + 1
    /\ UNCHANGED <<archive, state_file, args, processed_state, files,
                   processed_files, rpc, recorded>>
    /\ UNCHANGED <<featVars, rowVars, scoreVars, pipeVars>>

\* the next file of the run is read to its end: its relative path is appended
FileDone ==
    /\ rpc = "files"
    /\ Len(processed_files) < Len(files)
    /\ processed_files' = Append(processed_files, files[Len(processed_files) + 1])
    /\ UNCHANGED <<archive, state_file, args, processed_state, files, rpc, runs,
                   recorded>>
    /\ UNCHANGED <<featVars, rowVars, scoreVars, pipeVars>>

\* an exception leaves main() while a file is read (ra fails, pq.read_table or
\* build_score_row raises): nothing is written
MainRaises ==
    /\ rpc = "files"
    /\ Len(processed_files) < Len(files)
    /\ args' = NoArgs
    /\ processed_state' = {}
    /\ files' = << >>
    /\ processed_files' = << >>
    /\ rpc' = "idle"
    /\ UNCHANGED <<archive, state_file, runs, recorded>>
    /\ UNCHANGED <<featVars, rowVars, scoreVars, pipeVars>>

\* every file was read, without --dry-run: the outputs are written, then
\* write_state(state_file, processed_state.union(processed_files))
WriteState ==
    /\ rpc = "files"
    /\ Len(processed_files) = Len(files)
    /\ ~args.dry_run
    /\ state_file' = [state_file EXCEPT
                        ![args.program] = processed_state \cup Range(processed_files)]
    /\ recorded' = [recorded EXCEPT
                      ![args.program] = @ \cup processed_state \cup Range(processed_files)]
    /\ args' = NoArgs
    /\ processed_state' = {}
    /\ files' = << >>
    /\ processed_files' = << >>
    /\ rpc' = "idle"
    /\ UNCHANGED <<archive, runs>>
    /\ UNCHANGED <<featVars, rowVars, scoreVars, pipeVars>>

\* every file was read, with --dry-run: neither outputs nor state are written
DryRunEnd ==
    /\ rpc = "files"
    /\ Len(processed_files) = Len(files)
    /\ args.dry_run
    /\ args' = NoArgs
    /\ processed_state' = {}
    /\ files' = << >>
    /\ processed_files' = << >>
    /\ rpc' = "idle"
    /\ UNCHANGED <<archive, state_file, runs, recorded>>
    /\ UNCHANGED <<featVars, rowVars, scoreVars, pipeVars>>

vars == <<featVars, rowVars, scoreVars, stateVars, pipeVars>>

\* the feature run
Init == FeatInit /\ RowInit /\ ScoreInit /\ StateInit /\ PipeInit

Next ==
    \/ \E rec \in Records : Capture(rec)
    \/ \E r \in Runs : StartRun(r)
    \/ \E r \in Runs, rec \in Records : IngestRecord(r, rec)
    \/ \E r \in Runs : NextFile(r)
    \/ \E r \in Runs : Finalize(r)

Spec == Init /\ [][Next]_vars

\* the feature run over the raw rows of ra
InitRows == Init /\ window_seconds = 300

NextRows ==
    \/ StartRows
    \/ \E row \in RawRows : DropRow(row)
    \/ \E row \in RawRows : IngestRow(row)
    \/ \E row \in RawRows : RowRaises(row)
    \/ NextFile(1)
    \/ Finalize(1)
    \/ RaFails
    \/ WriteOutputs
    \/ DryRun

SpecRows == InitRows /\ [][NextRows]_vars

\* the scoring run
InitScore == Init /\ window_seconds = 300

NextScore ==
    \/ \E override \in Overrides \cup InvalidObjects : LoadModel(override)
    \/ \E doc \in InvalidDocuments : LoadModelRaises(doc)
    \/ LoadDefaultModel
    \/ \E row \in FeatureRows : BuildScoreRow(row)
    \/ \E row \in FeatureRows : BuildScoreRowRaises(row)
    \/ NextRow
    \/ ReadTableRaises
    \/ EndLoop
    \/ DryRunScores
    \/ WriteScores
    \/ FinishUnpublished
    \/ BuildPublishConfigRaises
    \/ \E n \in 0..MaxBatches : BuildPublishConfig(n)
    \/ PublishBatch
    \/ PublishBatchRaises

SpecScore == InitScore /\ [][NextScore]_vars

\* runs of the two programs over their state files
InitState == Init /\ window_seconds = 300

NextState ==
    \/ \E p \in Programs, path \in ArchiveFiles : ArchiveFile(p, path)
    \/ \E a \in CommandLines : StartMain(a)
    \/ \E a \in CommandLines : NothingToProcess(a)
    \/ FileDone
    \/ MainRaises
    \/ WriteState
    \/ DryRunEnd

SpecState == InitState /\ [][NextState]_vars

\* stream_ra_rows on one file, with its child process
InitPipes == Init /\ window_seconds = 300

NextPipes ==
    \/ \E script \in Scripts(MaxWrites), code \in ExitCodes : Popen(script, code)
    \/ ChildWriteStdout
    \/ ChildWriteStderr
    \/ ChildExit
    \/ ReadStdout
    \/ StdoutEof
    \/ ReadStderr
    \/ StderrEof
    \/ Wait

SpecPipes == InitPipes /\ [][NextPipes]_vars

(***************************************************************************)
(* Claims about the feature run                                            *)
(***************************************************************************)
\* the records run r has read so far
Ingested(r) == IF pc[r] = "idle" THEN EmptyBag ELSE input (-) todo[r]

\* number of records of bag b (with multiplicity) that satisfy P
BagCount(b, P(_)) ==
    BagCardinality([x \in {y \in BagToSet(b) : P(y)} |-> CopiesIn(x, b)])

\* C1: aggregation is order-independent: two runs of build_feature_rows over
\* the same multiset of records, read in any two orders and split over files
\* in any two ways, end with the same map from (window_start, identity) to
\* WindowAggregate.
C1_OrderIndependent ==
    (pc[1] = "done" /\ pc[2] = "done") => aggregates[1] = aggregates[2]

\* both runs are complete, they split the records over files differently, and
\* some aggregate accumulated several different records
C1_Witness ==
    /\ pc[1] = "done" /\ pc[2] = "done"
    /\ processed[1] # processed[2]
    /\ \E k \in DOMAIN aggregates[2] :
          /\ aggregates[2][k].flow_count >= 2
          /\ aggregates[2][k].bytes_out >= 5
          /\ Cardinality(aggregates[2][k].unique_asn) = 2

\* C2: every ingested record is accumulated under a window_start that is a
\* multiple of window_seconds with window_start <= stime < window_start +
\* window_seconds, for any stime (negative and fractional ones included): each
\* aggregate counts exactly the records of its identity whose stime lies in
\* its window, and every finished row has window_end = window_start +
\* window_seconds.
C2_WindowIsFloor ==
    \A r \in Runs :
       /\ \A key \in DOMAIN aggregates[r] :
             LET InWindow(rec) ==
                    /\ rec.saddr = key[2]
                    /\ RLe(R(key[1]), rec.stime)
                    /\ RLt(rec.stime, R(key[1] + window_seconds))
             IN  /\ key[1] % window_seconds = 0
                 /\ aggregates[r][key].flow_count = BagCount(Ingested(r), InWindow)
       /\ \A i \in 1..Len(rows[r]) :
             rows[r][i].window_end = rows[r][i].window_start + window_seconds

\* the ASNs of identity id seen in a run's windows that start before w
SeenBefore(r, id, w) ==
    UNION { aggregates[r][k].unique_asn :
            k \in {x \in DOMAIN aggregates[r] : x[2] = id /\ x[1] < w} }

\* C3: in a finished run there is one row per aggregate key, and each row's
\* new_asn_ratio is |S - seen| / |S| for a non-empty ASN set S of the row and
\* 0 for an empty one, where seen is the union of the ASN sets of the same
\* identity's windows with a strictly smaller window_start; the rows do not
\* depend on the order in which the records were read.
C3_NoveltyRatio ==
    /\ \A r \in Runs :
          pc[r] = "done" =>
             /\ Len(rows[r]) = Cardinality(DOMAIN aggregates[r])
             /\ \A key \in DOMAIN aggregates[r] :
                   \E i \in 1..Len(rows[r]) :
                      /\ rows[r][i].window_start = key[1]
                      /\ rows[r][i].identity = key[2]
             /\ \A i \in 1..Len(rows[r]) :
                   LET row == rows[r][i]
                       S == aggregates[r][<<row.window_start, row.identity>>].unique_asn
                       seen == SeenBefore(r, row.identity, row.window_start)
                   IN  IF S = {}
                       THEN row.new_asn_ratio = R(0)
                       ELSE /\ row.new_asn_ratio.n * Cardinality(S)
                                  = Cardinality(S \ seen) * row.new_asn_ratio.d
                            /\ (seen = {} => row.new_asn_ratio = R(1))
                            /\ (S \subseteq seen => row.new_asn_ratio = R(0))
    /\ (pc[1] = "done" /\ pc[2] = "done") => rows[1] = rows[2]

\* a finished run in which a later window of an identity repeats only ASNs seen
\* before (ratio 0) and its first window has ratio 1
C3_Witness ==
    \E r \in Runs :
       /\ pc[r] = "done"
       /\ \E i, j \in 1..Len(rows[r]) :
             /\ rows[r][i].identity = rows[r][j].identity
             /\ rows[r][i].window_start < rows[r][j].window_start
             /\ rows[r][i].new_asn_ratio = R(1)
             /\ rows[r][j].unique_asn >= 1
             /\ rows[r][j].new_asn_ratio = R(0)

(***************************************************************************)
(* Claims about the feature run over raw rows                              *)
(***************************************************************************)
\* C15 as stated: a malformed row never aborts the feature run: every row read
\* is dropped or ingested, and no exception leaves stream_ra_rows or
\* build_feature_rows because of a row.
C15_MalformedRowNeverAborts ==
    /\ outcome \in {"", "drop", "yield"}
    /\ failure \notin {"parse_int_like", "build_feature_rows"}

\* the ASN the contract of section 4.1 gives a raw value: absent for a blank
\* and for the sentinels in any letter case, else upper-cased with a leading
\* AS removed
ClaimedAsn(raw) ==
    LET value == Strip(raw)
        upper == UpperText(value)
        rest == IF Len(upper) >= 2 /\ upper[1] = "A" /\ upper[2] = "S"
                THEN Strip(SubSeq(upper, 3, Len(upper))) ELSE upper
    IN  IF value = << >> \/ LowerText(value) \in INVALID_VALUES THEN None
        ELSE rest

\* C16 as stated: the das of a yielded record is absent for a blank and for
\* the sentinels -, --, 0 and unknown in any letter case, and else the
\* upper-cased value without its leading AS; and a raw value that normalizes
\* to the same ASN differs from it only in case, whitespace or that prefix.
C16_NormalizeAsn ==
    outcome = "yield" =>
       /\ record.das = Text(ClaimedAsn(raw_row[7]))
       /\ \A other \in RawAsns :
             (record.das # "" /\ Text(normalize_asn(other)) = record.das)
                => ClaimedAsn(other) = ClaimedAsn(raw_row[7])

\* C17: when ra exits with a non-zero code for a file of the run, the first or
\* a later one, after any number of rows were aggregated, the run ends with no
\* row in the feature Parquet dataset and no file of the run in the state
\* file; nor does any other failed run write.
C17_RaFailureEmitsNothing ==
    pc[1] = "failed" => (parquet = << >> /\ state_count = 0)

\* ra fails on a later file, after a file was read completely and records were
\* aggregated
C17_Witness ==
    /\ pc[1] = "failed"
    /\ failure = "stream_ra_rows"
    /\ processed[1] >= 1
    /\ \E key \in DOMAIN aggregates[1] : aggregates[1][key].flow_count >= 2
    /\ parquet = << >>
    /\ state_count = 0

\* Counter.values() summed
RECURSIVE CounterSum(_, _)
CounterSum(counter, keys) ==
    IF keys = {} THEN 0
    ELSE LET k == CHOOSE x \in keys : TRUE
         IN  counter[k] + CounterSum(counter, keys \ {k})

\* C19: every aggregate has 0 <= quic_flows <= https_flows <= flow_count and
\* flow_count >= 1, https_flows is the histogram count of port "443", the
\* histogram counts sum to flow_count; every feature row, returned or written,
\* has https_ratio and quic_ratio in [0, 1] with quic_ratio <= https_ratio.
C19_AggregateInvariants ==
    /\ \A key \in DOMAIN aggregates[1] :
          LET agg == aggregates[1][key]
          IN  /\ 0 <= agg.quic_flows
              /\ agg.quic_flows <= agg.https_flows
              /\ agg.https_flows <= agg.flow_count
              /\ agg.flow_count >= 1
              /\ agg.https_flows = IF "443" \in DOMAIN agg.dport_counter
                                   THEN agg.dport_counter["443"] ELSE 0
              /\ CounterSum(agg.dport_counter, DOMAIN agg.dport_counter)
                    = agg.flow_count
    /\ \A i \in 1..Len(rows[1]) :
          /\ RLe(R(0), rows[1][i].quic_ratio)
          /\ RLe(rows[1][i].quic_ratio, rows[1][i].https_ratio)
          /\ RLe(rows[1][i].https_ratio, R(1))
    /\ \A i \in 1..Len(parquet) : parquet[i] = rows[1][i]

\* a written row of two flows, one over TCP and one over UDP (QUIC), both to
\* port 443 after normalization
C19_Witness ==
    /\ pc[1] = "written"
    /\ \E i \in 1..Len(parquet) :
          /\ parquet[i].flow_count = 2
          /\ parquet[i].https_ratio = R(1)
          /\ parquet[i].quic_ratio = [n |-> 1, d |-> 2]
    /\ \E key \in DOMAIN aggregates[1] :
          /\ aggregates[1][key].dport_counter["443"] = 2
          /\ aggregates[1][key].quic_flows = 1

\* C20 as stated: the byte counts of every yielded record are >= 0, so
\* bytes_out, bytes_in and bytes_total of every aggregate and feature row are
\* >= 0, and the bytes of an aggregate never decrease as records are ingested.
C20_BytesNonNegative ==
    /\ [](/\ record.sbytes >= 0 /\ record.dbytes >= 0
          /\ \A key \in DOMAIN aggregates[1] :
                /\ aggregates[1][key].bytes_out >= 0
                /\ aggregates[1][key].bytes_in >= 0
          /\ \A i \in 1..Len(rows[1]) :
                /\ rows[1][i].bytes_out >= 0 /\ rows[1][i].bytes_in >= 0
                /\ rows[1][i].bytes_total >= 0)
    /\ [][\A key \in DOMAIN aggregates[1] :
             /\ aggregates'[1][key].bytes_out >= aggregates[1][key].bytes_out
             /\ aggregates'[1][key].bytes_in >= aggregates[1][key].bytes_in]_vars

(***************************************************************************)
(* Claims about the scoring run                                            *)
(***************************************************************************)
Scored == spc = "scored"

\* the sections of the loaded model
Weights == DictGet(model, "weights", JNull).items
Scales == DictGet(model, "scales", JNull).items
ReasonCodes == DictGet(model, "reason_codes", JNull).items
SeverityThresholds == DictGet(model, "severity_thresholds", JNull).items
AnomalyThreshold == Float(DictGet(model, "anomaly_threshold", JNull))

\* the unclamped sum of the contributions of the row just scored
RawScore == SumContrib(R(0), contributions)

\* the contribution recorded for feature f
ContributionOf(f) == DictGet(contributions, f, R(0))

\* C4: build_score_row returns a score with 0 <= score <= 100, whatever the
\* weights (negative, or summing above 100), scales and thresholds.
C4_ScoreBounded ==
    Scored => /\ RLe(R(0), score_row.score)
              /\ RLe(score_row.score, R(100))

\* a row whose contributions sum below zero, under a negative weight
C4_Witness ==
    /\ Scored
    /\ RLt(RawScore, R(0))
    /\ \E i \in 1..Len(Weights) : Weights[i][2].n < 0
    /\ score_row.score = R(0)

\* the contribution the scoring rule of section 4.5 gives to the i-th weight
ExpectedContribution(i) ==
    LET f == Weights[i][1]
        cell == DictGet(in_row, f, JNull)
        value == IF cell.t = "null" THEN R(0) ELSE Float(cell)
        scale == IF HasKey(Scales, f) THEN Float(DictGet(Scales, f, JNull)) ELSE R(1)
        ratio == RDiv(value, scale)
        norm == IF ~RLt(R(0), scale) THEN R(0)
                ELSE IF RLt(ratio, R(0)) THEN R(0)
                ELSE IF RLt(R(1), ratio) THEN R(1)
                ELSE ratio
    IN  RMul(norm, Float(Weights[i][2]))

\* C5: for each feature f of weights, in the order of weights, contribution[f]
\* = norm * weights[f] with norm = clamp(value / scale, 0, 1) for scale > 0 and
\* norm = 0 for scale <= 0, value the row's cell or 0 when missing or null,
\* scale scales[f] or 1.0 without an entry; value 10, scale 50, weight 18
\* gives 3.6.
C5_Contribution ==
    Scored =>
       /\ DictKeys(contributions) = DictKeys(Weights)
       /\ \A i \in 1..Len(Weights) : contributions[i][2] = ExpectedContribution(i)
       /\ \A i \in 1..Len(Weights) :
             ( /\ DictGet(in_row, Weights[i][1], JNull) = JNum(10, 1)
               /\ DictGet(Scales, Weights[i][1], JNull) = JNum(50, 1)
               /\ Weights[i][2] = JNum(18, 1) )
             => contributions[i][2] = [n |-> 18, d |-> 5]

\* the example of the spec next to a saturated feature (value above its scale),
\* a null cell aside
C5_Witness ==
    /\ Scored
    /\ DictGet(in_row, "unique_daddr", JNull) = JNum(10, 1)
    /\ DictGet(Scales, "unique_daddr", JNull) = JNum(50, 1)
    /\ DictGet(Weights, "unique_daddr", JNull) = JNum(18, 1)
    /\ ContributionOf("unique_daddr") = [n |-> 18, d |-> 5]
    /\ HasKey(Weights, "A") /\ ~HasKey(Scales, "A")
    /\ DictGet(in_row, "A", JNull) = JNum(5, 1)
    /\ ContributionOf("A") = Float(DictGet(Weights, "A", JNull))

\* the items of a dict whose keys are in keys
RECURSIVE Restrict(_, _)
Restrict(items, keys) ==
    IF items = << >> THEN << >>
    ELSE IF Head(items)[1] \in keys
         THEN <<Head(items)>> \o Restrict(Tail(items), keys)
         ELSE Restrict(Tail(items), keys)

\* the loaded model without the scales and reason codes of unweighted features
ProjectedModel ==
    DictSet(DictSet(model, "scales", JDict(Restrict(Scales, KeySet(Weights)))),
            "reason_codes", JDict(Restrict(ReasonCodes, KeySet(Weights))))

ScoreFields(out) ==
    [score |-> out.score, severity |-> out.severity, is_anom |-> out.is_anom,
     reason_1 |-> out.reason_1, reason_2 |-> out.reason_2, reason_3 |-> out.reason_3]

\* C6: only the features of weights are scored: the score, severity, is_anom
\* and reasons of a row are those of the row cut down to the features of
\* weights, under the model cut down to the scales and reason codes of the
\* features of weights; so rows that agree on the features of weights score
\* alike whatever else they and the model hold.
C6_OnlyWeightsScored ==
    Scored =>
       score_row = ScoreFields(build_score_row(Restrict(in_row, KeySet(Weights)),
                                               ProjectedModel))

\* a scored row with a cell for an unweighted feature that has a scale and a
\* reason code
C6_Witness ==
    /\ Scored
    /\ ~HasKey(Weights, "flow_count")
    /\ HasKey(in_row, "flow_count")
    /\ HasKey(Scales, "flow_count")
    /\ HasKey(ReasonCodes, "flow_count")
    /\ ~HasKey(Weights, "dns_ratio") /\ HasKey(in_row, "dns_ratio")
    /\ RLt(R(0), score_row.score)

\* C7: severity is "high" when score >= severity_thresholds.high (also when
\* medium is configured above high), else "medium" when score >=
\* severity_thresholds.medium, else "low"; under the default thresholds a score
\* of 18 is "low" and not anomalous.
C7_Severity ==
    Scored =>
       LET high == Float(DictGet(SeverityThresholds, "high", JNull))
           medium == Float(DictGet(SeverityThresholds, "medium", JNull))
       IN  /\ RGe(score_row.score, high) => score_row.severity = "high"
           /\ (~RGe(score_row.score, high) /\ RGe(score_row.score, medium))
                 => score_row.severity = "medium"
           /\ (~RGe(score_row.score, high) /\ ~RGe(score_row.score, medium))
                 => score_row.severity = "low"
           /\ ( /\ high = R(70) /\ medium = R(40) /\ AnomalyThreshold = R(70)
                /\ score_row.score = R(18) )
                 => score_row.severity = "low" /\ score_row.is_anom = FALSE

\* the example of the spec: the single active weight A = 18 saturates
C7_Witness ==
    /\ Scored
    /\ DictGet(Weights, "A", JNull) = JNum(18, 1)
    /\ DictKeys(in_row) = <<"A">>
    /\ ContributionOf("A") = R(18)
    /\ DictGet(model, "severity_thresholds", JNull)
          = DictGet(DEFAULT_MODEL, "severity_thresholds", JNull)
    /\ AnomalyThreshold = R(70)
    /\ score_row.score = R(18)
    /\ score_row.severity = "low"
    /\ score_row.is_anom = FALSE

\* C8: is_anom is exactly score >= anomaly_threshold, whatever the severity:
\* with anomaly_threshold above severity_thresholds.high, a score in
\* [high, anomaly_threshold) has severity "high" and is_anom false.
C8_AnomalyIndependent ==
    Scored =>
       LET high == Float(DictGet(SeverityThresholds, "high", JNull))
       IN  /\ score_row.is_anom = RGe(score_row.score, AnomalyThreshold)
           /\ ( /\ RLt(high, AnomalyThreshold)
                /\ RGe(score_row.score, high)
                /\ RLt(score_row.score, AnomalyThreshold) )
                 => score_row.severity = "high" /\ score_row.is_anom = FALSE

\* a row of severity "high" that is not anomalous
C8_Witness ==
    /\ Scored
    /\ RLt(Float(DictGet(SeverityThresholds, "high", JNull)), AnomalyThreshold)
    /\ score_row.severity = "high"
    /\ score_row.is_anom = FALSE

\* the positions of the features with a strictly positive contribution
Positive == {i \in 1..Len(contributions) : RLt(R(0), contributions[i][2])}

\* C9: build_reasons returns exactly 3 entries: the codes of the features with
\* a strictly positive contribution, in descending order of contribution, at
\* most the 3 largest, and then only "NONE"; no feature with a contribution
\* <= 0 is reported.
C9_Reasons ==
    Scored =>
       LET n == IF Cardinality(Positive) < 3 THEN Cardinality(Positive) ELSE 3
       IN  /\ Len(reason_list) = 3
           /\ Len(top3) = n
           /\ \A i \in 1..n :
                 /\ HasKey(contributions, top3[i])
                 /\ RLt(R(0), ContributionOf(top3[i]))
                 /\ reason_list[i] = reason_code(ReasonCodes, top3[i])
           /\ \A i, j \in 1..n :
                 i < j => /\ top3[i] # top3[j]
                          /\ RGe(ContributionOf(top3[i]), ContributionOf(top3[j]))
           /\ \A k \in 1..Len(contributions) :
                 (\A i \in 1..n : top3[i] # contributions[k][1])
                    => \A i \in 1..n : RGe(ContributionOf(top3[i]), contributions[k][2])
                       \/ ~RLt(R(0), contributions[k][2])
           /\ \A i \in (n + 1)..3 : reason_list[i] = "NONE"
           /\ score_row.reason_1 = reason_list[1]
           /\ score_row.reason_2 = reason_list[2]
           /\ score_row.reason_3 = reason_list[3]

\* two positive contributors beside a negative and an idle one: two codes,
\* then "NONE"
C9_Witness ==
    /\ Scored
    /\ Cardinality(Positive) = 2
    /\ \E k \in 1..Len(contributions) : RLt(contributions[k][2], R(0))
    /\ \E k \in 1..Len(contributions) : contributions[k][2] = R(0)
    /\ reason_list[1] # "NONE" /\ reason_list[2] # "NONE" /\ reason_list[3] = "NONE"

\* C10 as stated: a reported feature with an entry in reason_codes is reported
\* as that code, and one without an entry as the feature name itself.
C10_FeatureNameUnchanged ==
    Scored =>
       \A i \in 1..Len(top3) :
          reason_list[i] = IF HasKey(ReasonCodes, top3[i])
                           THEN DictGet(ReasonCodes, top3[i], JNull).s
                           ELSE top3[i]

\* C10, amended: a reported feature with an entry in reason_codes is reported
\* as that code, and one without an entry as the upper-cased feature name.
C10_FeatureNameUpper ==
    Scored =>
       \A i \in 1..Len(top3) :
          reason_list[i] = IF HasKey(ReasonCodes, top3[i])
                           THEN DictGet(ReasonCodes, top3[i], JNull).s
                           ELSE Upper(top3[i])

\* a feature without a reason code is reported next to one with a code
C10_Witness ==
    /\ Scored
    /\ \E i, j \in 1..Len(top3) :
          /\ top3[i] = "dns_ratio"
          /\ ~HasKey(ReasonCodes, "dns_ratio")
          /\ reason_list[i] = "DNS_RATIO"
          /\ HasKey(ReasonCodes, top3[j])
          /\ reason_list[j] = DictGet(ReasonCodes, top3[j], JNull).s

\* the position of key k in a dict's iteration order
IndexOf(items, k) == CHOOSE i \in 1..Len(items) : items[i][1] = k

\* C11: ties are broken by the enumeration order of weights: of two reported
\* features with equal contributions the one weights enumerates first is
\* reported first, and a positive feature is left out in favour of an equal
\* one only if weights enumerates it later; the reasons are a function of the
\* row and the model.
C11_TieOrder ==
    Scored =>
       /\ \A i, j \in 1..Len(top3) :
             (i < j /\ ContributionOf(top3[i]) = ContributionOf(top3[j]))
                => IndexOf(Weights, top3[i]) < IndexOf(Weights, top3[j])
       /\ \A k \in Positive :
             (\A i \in 1..Len(top3) : top3[i] # contributions[k][1])
                => \A i \in 1..Len(top3) :
                      ContributionOf(top3[i]) = contributions[k][2]
                         => IndexOf(Weights, top3[i]) < k
       /\ reason_list = build_reasons(contributions_of(in_row, Weights, Scales),
                                      ReasonCodes)

\* four features tie at 16: the first three of weights are reported in the
\* order of weights, which is not the alphabetical one, and the fourth is not
C11_Witness ==
    /\ Scored
    /\ top3 = <<"unique_asn", "cloud_asn_unique", "dns_ratio">>
    /\ ContributionOf("unique_asn") = R(16)
    /\ ContributionOf("cloud_asn_unique") = R(16)
    /\ ContributionOf("dns_ratio") = R(16)
    /\ HasKey(contributions, "A") /\ ContributionOf("A") = R(16)
    /\ reason_list = <<"MANY_ASNS", "MANY_CLOUD_ASNS", "DNS_RATIO">>

\* the columns of the feature rows and the cells each may hold
Columns ==
    << <<"unique_daddr", UniqueDaddrCells>>, <<"unique_asn", UniqueAsnCells>>,
       <<"cloud_asn_unique", CloudAsnCells>>, <<"A", ACells>>,
       <<"dns_ratio", DnsRatioCells>>, <<"flow_count", FlowCountCells>> >>

\* row with the cell of column f replaced by cell (Absent: without the column)
WithCell(row, f, cell) ==
    IF cell = Absent THEN Restrict(row, KeySet(row) \ {f}) ELSE DictSet(row, f, cell)

\* the value build_score_row reads for feature f of a row
ValueOf(row, f) == to_float(DictGet(row, f, JNum(0, 1)))

\* the score build_score_row gives to row under the loaded model
ScoreOf(row) == clamp_score(SumContrib(R(0), contributions_of(row, Weights, Scales)))

NonNegativeWeights == \A i \in 1..Len(Weights) : Weights[i][2].n >= 0

\* C12: under a model whose weights are all non-negative, a row that differs
\* from the scored row only in the value of one feature, and has the larger
\* value there, gets a score greater than or equal to the scored row's, for
\* positive, zero and negative scales alike.
C12_Monotone ==
    (Scored /\ NonNegativeWeights) =>
       \A c \in 1..Len(Columns) : \A cell \in Columns[c][2] :
          LET f == Columns[c][1]
              other == WithCell(in_row, f, cell)
          IN  RLe(ValueOf(in_row, f), ValueOf(other, f))
                 => RLe(score_row.score, ScoreOf(other))

\* a weighted feature on a positive scale whose larger value scores strictly
\* higher, beside a larger value on a scale <= 0 that leaves the score alone
C12_Witness ==
    /\ Scored /\ NonNegativeWeights
    /\ DictGet(Weights, "unique_asn", JNull) = JNum(16, 1)
    /\ DictGet(Scales, "unique_asn", JNull) = JNum(20, 1)
    /\ ~HasKey(in_row, "unique_asn")
    /\ RLt(score_row.score, ScoreOf(WithCell(in_row, "unique_asn", JNum(20, 1))))
    /\ RLe(Float(DictGet(Scales, "unique_daddr", JNull)), R(0))
    /\ DictGet(in_row, "unique_daddr", JNull) = JNum(-5, 1)
    /\ score_row.score = ScoreOf(WithCell(in_row, "unique_daddr", JNum(100, 1)))

\* the top-level keys whose values are feature-to-value mappings
Sections == {"weights", "scales", "reason_codes", "severity_thresholds"}

\* C13: the model load_model returns for a configuration object holds, for
\* each section the override gives as a mapping, the default's entries with
\* those the override names replaced and those it adds appended; every other
\* top-level key of the override with the override's value; every top-level
\* key absent from the override with the default's value; and DEFAULT_MODEL
\* and its inner mappings are as they were before the call.
C13_Merge ==
    (spc # "start" /\ config.t = "dict") =>
       /\ \A k \in KeySet(config.items) :
             LET v == DictGet(config.items, k, JNull)
                 b == DictGet(DEFAULT_MODEL, k, JNull)
                 r == DictGet(model, k, JNull)
             IN  IF k \in Sections /\ v.t = "dict"
                 THEN /\ r.t = "dict"
                      /\ KeySet(r.items) = KeySet(b.items) \cup KeySet(v.items)
                      /\ Len(r.items) = Cardinality(KeySet(r.items))
                      /\ \A f \in KeySet(v.items) :
                            DictGet(r.items, f, JNull) = DictGet(v.items, f, JNull)
                      /\ \A f \in KeySet(b.items) \ KeySet(v.items) :
                            DictGet(r.items, f, JNull) = DictGet(b.items, f, JNull)
                 ELSE r = v
       /\ \A k \in KeySet(DEFAULT_MODEL) \ KeySet(config.items) :
             DictGet(model, k, JNull) = DictGet(DEFAULT_MODEL, k, JNull)
       /\ KeySet(model) = KeySet(DEFAULT_MODEL) \cup KeySet(config.items)
       /\ Len(model) = Cardinality(KeySet(model))
       /\ default_model = DEFAULT_MODEL

\* a loaded override that replaces one weight and adds another, replaces
\* anomaly_threshold and model_version, and does not mention scales
C13_Witness ==
    /\ spc = "loaded"
    /\ config.t = "dict"
    /\ DictGet(config.items, "weights", JNull)
          = JDict(<< <<"unique_daddr", JNum(-20, 1)>>, <<"A", JNum(-3, 1)>> >>)
    /\ DictGet(Weights, "unique_daddr", JNull) = JNum(-20, 1)
    /\ DictGet(Weights, "A", JNull) = JNum(-3, 1)
    /\ DictGet(Weights, "unique_asn", JNull) = JNum(16, 1)
    /\ Len(Weights) = 9
    /\ DictGet(model, "anomaly_threshold", JNull) = JNum(90, 1)
    /\ DictGet(model, "model_version", JNull) = JStr("shadowit-v2")
    /\ ~HasKey(config.items, "scales")
    /\ DictGet(model, "scales", JNull) = DictGet(DEFAULT_MODEL, "scales", JNull)
    /\ default_model = DEFAULT_MODEL

\* the configuration file is structurally invalid: not JSON, not an object, a
\* section that is not a mapping, or a weight, scale or threshold that is not
\* a number
StructurallyInvalid(doc) ==
    \/ doc.t # "dict"
    \/ \E k \in Sections :
          /\ HasKey(doc.items, k)
          /\ DictGet(doc.items, k, JNull).t # "dict"
    \/ \E k \in {"weights", "scales", "severity_thresholds"} :
          LET section == DictGet(doc.items, k, JNull)
          IN  \E i \in 1..Len(section.items) : section.items[i][2].t # "num"
    \/ /\ HasKey(doc.items, "anomaly_threshold")
       /\ DictGet(doc.items, "anomaly_threshold", JNull).t # "num"

\* C14 as stated: a structurally invalid configuration file makes the run fail
\* inside load_model, before a feature file is read or a score row is built.
C14_InvalidConfigFailsAtLoad ==
    (config # NoFile /\ StructurallyInvalid(config)) =>
       (spc = "failed" /\ failed_in = "load_model")

\* C18 as stated: a scoring run has no partial commit: when a step of the run
\* has failed, no score row of the run is in the Parquet dataset, no feature
\* file of the run is in the state file and no batch of lines was published;
\* and at the end of a run its feature files are in the state file only if
\* the rows were written and, where publishing was asked for, every batch was
\* published.
C18_NoPartialCommit ==
    /\ spc = "failed" =>
          (~sinks.parquet /\ ~sinks.state /\ sinks.published = 0)
    /\ (spc \in {"failed", "done"} /\ sinks.state) =>
          /\ sinks.parquet
          /\ sinks.publish => (spc = "done" /\ sinks.published = sinks.batches)


(***************************************************************************)
(* Claims about the processed-files state and about the child process      *)
(***************************************************************************)
\* C21: the processed-files state only grows: every file a state file records
\* before a step of a run is still recorded after it, and a run without
\* --reprocess selects no file that an earlier run wrote to the state file
C21_StateOnlyGrows ==
    /\ [][\A p \in Programs : state_file[p] \subseteq state_file'[p]]_vars
    /\ [](rpc = "files" /\ ~args.reprocess
            => Range(files) \cap recorded[args.program] = {})

\* C22: stream_ra_rows always terminates: between Popen and the end of the
\* generator the parent and the child are never both blocked, that is, some
\* step of one of them is possible (each step consumes a unit ra has left to
\* write, a unit in a pipe or a position of the parent, so that steps cannot
\* go on for ever)
C22_Terminates ==
    ppc \in {"read_stdout", "read_stderr", "wait"} => ENABLED NextPipes

====
